---------------------------- MODULE Spec2Model ----------------------------
(***************************************************************************)
(* Model of the rust-socksd connection engine: the two accept loops of     *)
(* ProxyServer sharing one admission semaphore, the per-connection tasks    *)
(* with their deadline, the SOCKS5 negotiation / request / CONNECT path     *)
(* and the HTTP proxy path.                                                 *)
(*                                                                         *)
(* Bytes are integers 0..255.  What the server wrote to a SOCKS5 client is  *)
(* a sequence of bytes (field out); what it wrote to an HTTP client is a    *)
(* string (field hout).  A frame a client sends is chosen when the handler  *)
(* reads it; a frame shorter than what read_exact asks for stands for a     *)
(* client that closed after sending it (UnexpectedEof).  A client that      *)
(* sends nothing is the handler step not being taken.  Writes of the short  *)
(* replies to a socket the handler still owns are taken to succeed.         *)
(***************************************************************************)
EXTENDS Integers, Sequences, FiniteSets, TLC

\* ----------------------------------------------------------------- bounds
NumClients == 2
max_connections == 1
MaxMethods == 2

Clients == 1..NumClients
Listeners == {"socks5", "http"}

\* ------------------------------------------------------ SOCKS5 wire types
NoAuth == 0
UserPass == 2
NoAcceptable == 255

\* impl From<u8> for AuthMethod
AuthMethodFrom(b) ==
    IF b = 0 THEN NoAuth ELSE IF b = 2 THEN UserPass ELSE NoAcceptable

CommandFrom_no_bind(b) ==
    IF b = 1 THEN "Connect"
    ELSE IF b = 3 THEN "UdpAssociate"
    ELSE "Connect"
\* impl From<u8> for Command: an unknown byte becomes Connect
CommandFrom(b) ==
    IF b = 1 THEN "Connect"
    ELSE IF b = 2 THEN "Bind"
    ELSE IF b = 3 THEN "UdpAssociate"
    ELSE "Connect"

\* impl From<u8> for AddressType: an unknown byte becomes DomainName
AddressTypeFrom(b) ==
    IF b = 1 THEN "IPv4"
    ELSE IF b = 3 THEN "DomainName"
    ELSE IF b = 4 THEN "IPv6"
    ELSE "DomainName"

\* enum Address: the variant and its bytes (octets, or the domain's UTF-8)
Address(t, bs) == [type |-> t, bytes |-> bs]

NoRequest == [command |-> "none", address |-> Address("none", <<>>), port |-> 0]

Take(s, n) == SubSeq(s, 1, n)
Drop(s, n) == SubSeq(s, n + 1, Len(s))

\* u16::from_be_bytes / BufMut::put_u16
U16FromBe(bs) == bs[1] * 256 + bs[2]
U16ToBe(p) == << (p \div 256) % 256, p % 256 >>

\* String::from_utf8: strict UTF-8 validation of a byte sequence
IsCont(b) == b >= 128 /\ b <= 191

RECURSIVE IsValidUtf8(_)
IsValidUtf8(bs) ==
    IF bs = <<>> THEN TRUE
    ELSE LET b == bs[1] n == Len(bs) IN
         IF b <= 127 THEN IsValidUtf8(Drop(bs, 1))
         ELSE IF b >= 194 /\ b <= 223
              THEN n >= 2 /\ IsCont(bs[2]) /\ IsValidUtf8(Drop(bs, 2))
         ELSE IF b >= 224 /\ b <= 239
              THEN /\ n >= 3
                   /\ IsCont(bs[2]) /\ IsCont(bs[3])
                   /\ (b = 224 => bs[2] >= 160)
                   /\ (b = 237 => bs[2] <= 159)
                   /\ IsValidUtf8(Drop(bs, 3))
         ELSE IF b >= 240 /\ b <= 244
              THEN /\ n >= 4
                   /\ IsCont(bs[2]) /\ IsCont(bs[3]) /\ IsCont(bs[4])
                   /\ (b = 240 => bs[2] >= 144)
                   /\ (b = 244 => bs[2] <= 143)
                   /\ IsValidUtf8(Drop(bs, 4))
         ELSE FALSE

handle_handshake_answers_empty(frame, auth_required) ==
    IF Len(frame) < 2 THEN [status |-> "eof", method |-> NoAcceptable, reply |-> <<>>]
    ELSE LET version == frame[1]
             nmethods == frame[2]
         IN
         IF version # 5 THEN [status |-> "version", method |-> NoAcceptable, reply |-> <<>>]
         ELSE IF Len(frame) < 2 + nmethods
              THEN [status |-> "eof", method |-> NoAcceptable, reply |-> <<>>]
         ELSE LET methods == { AuthMethodFrom(frame[2 + i]) : i \in 1..nmethods }
                  selected_method ==
                      IF auth_required
                      THEN IF UserPass \in methods THEN UserPass ELSE NoAcceptable
                      ELSE IF NoAuth \in methods THEN NoAuth ELSE NoAcceptable
              IN [status |-> "selected", method |-> selected_method,
                  reply |-> <<5, selected_method>>]
handle_handshake_fallback(frame, auth_required) ==
    IF Len(frame) < 2 THEN [status |-> "eof", method |-> NoAcceptable, reply |-> <<>>]
    ELSE IF frame[1] # 5 THEN [status |-> "version", method |-> NoAcceptable, reply |-> <<>>]
    ELSE IF frame[2] = 0 THEN [status |-> "nmethods", method |-> NoAcceptable, reply |-> <<>>]
    ELSE IF Len(frame) < 2 + frame[2]
         THEN [status |-> "eof", method |-> NoAcceptable, reply |-> <<>>]
    ELSE LET methods == { AuthMethodFrom(frame[2 + i]) : i \in 1..frame[2] }
             selected_method ==
                 IF auth_required /\ UserPass \in methods THEN UserPass
                 ELSE IF NoAuth \in methods THEN NoAuth ELSE NoAcceptable
         IN [status |-> "selected", method |-> selected_method,
             reply |-> <<5, selected_method>>]
\* Socks5Handler::handle_handshake up to the method selection.  status is
\* "eof" (read_exact failed), "version", "nmethods" (the two early returns)
\* or "selected"; reply is what write_all sends.
handle_handshake(frame, auth_required) ==
    IF Len(frame) < 2 THEN [status |-> "eof", method |-> NoAcceptable, reply |-> <<>>]
    ELSE LET version == frame[1]
             nmethods == frame[2]
         IN
         IF version # 5 THEN [status |-> "version", method |-> NoAcceptable, reply |-> <<>>]
         ELSE IF nmethods = 0 THEN [status |-> "nmethods", method |-> NoAcceptable, reply |-> <<>>]
         ELSE IF Len(frame) < 2 + nmethods
              THEN [status |-> "eof", method |-> NoAcceptable, reply |-> <<>>]
         ELSE LET methods == { AuthMethodFrom(frame[2 + i]) : i \in 1..nmethods }
                  selected_method ==
                      IF auth_required
                      THEN IF UserPass \in methods THEN UserPass ELSE NoAcceptable
                      ELSE IF NoAuth \in methods THEN NoAuth ELSE NoAcceptable
              IN [status |-> "selected", method |-> selected_method,
                  reply |-> <<5, selected_method>>]

validate_credentials_failopen(outcome) ==
    IF outcome = "OkTrue" THEN TRUE
    ELSE IF outcome = "OkFalse" THEN FALSE
    ELSE TRUE
\* Socks5Handler::validate_credentials: Ok(valid) => valid, Err(e) => false
validate_credentials(outcome) ==
    IF outcome = "OkTrue" THEN TRUE
    ELSE IF outcome = "OkFalse" THEN FALSE
    ELSE FALSE

handle_user_pass_auth_swapped(frame, outcome) ==
    IF Len(frame) < 2 THEN [status |-> "eof", reply |-> <<>>, called |-> FALSE]
    ELSE IF frame[1] # 1 THEN [status |-> "version", reply |-> <<>>, called |-> FALSE]
    ELSE IF Len(frame) < 2 + frame[2] + 1
         THEN [status |-> "eof", reply |-> <<>>, called |-> FALSE]
    ELSE IF Len(frame) < 2 + frame[2] + 1 + frame[2 + frame[2] + 1]
         THEN [status |-> "eof", reply |-> <<>>, called |-> FALSE]
    ELSE LET auth_success == validate_credentials(outcome) IN
         [status |-> IF auth_success THEN "ok" ELSE "denied",
          reply |-> <<1, IF auth_success THEN 1 ELSE 0>>,
          called |-> TRUE]
\* Socks5Handler::handle_user_pass_auth on a sub-negotiation frame, with the
\* outcome of the credential check.  status is "eof", "version", "ok" or
\* "denied"; reply is what write_all sends.
handle_user_pass_auth(frame, outcome) ==
    IF Len(frame) < 2 THEN [status |-> "eof", reply |-> <<>>, called |-> FALSE]
    ELSE LET version == frame[1]
             ulen == frame[2]
         IN
         IF version # 1 THEN [status |-> "version", reply |-> <<>>, called |-> FALSE]
         ELSE IF Len(frame) < 2 + ulen + 1
              THEN [status |-> "eof", reply |-> <<>>, called |-> FALSE]
         ELSE LET plen == frame[2 + ulen + 1] IN
              IF Len(frame) < 2 + ulen + 1 + plen
              THEN [status |-> "eof", reply |-> <<>>, called |-> FALSE]
              ELSE LET auth_success == validate_credentials(outcome) IN
                   [status |-> IF auth_success THEN "ok" ELSE "denied",
                    reply |-> <<1, IF auth_success THEN 0 ELSE 1>>,
                    called |-> TRUE]

\* Socks5Handler::handle_request: status "eof", "version", "utf8" or "ok"
handle_request(frame) ==
    IF Len(frame) < 4 THEN [status |-> "eof", request |-> NoRequest]
    ELSE LET version == frame[1]
             command == CommandFrom(frame[2])
             address_type == AddressTypeFrom(frame[4])
             rest == Drop(frame, 4)
         IN
         IF version # 5 THEN [status |-> "version", request |-> NoRequest]
         ELSE IF address_type = "IPv4" THEN
              IF Len(rest) < 4 + 2 THEN [status |-> "eof", request |-> NoRequest]
              ELSE [status |-> "ok",
                    request |-> [command |-> command,
                                 address |-> Address("IPv4", Take(rest, 4)),
                                 port |-> U16FromBe(SubSeq(rest, 5, 6))]]
         ELSE IF address_type = "IPv6" THEN
              IF Len(rest) < 16 + 2 THEN [status |-> "eof", request |-> NoRequest]
              ELSE [status |-> "ok",
                    request |-> [command |-> command,
                                 address |-> Address("IPv6", Take(rest, 16)),
                                 port |-> U16FromBe(SubSeq(rest, 17, 18))]]
         ELSE IF Len(rest) < 1 THEN [status |-> "eof", request |-> NoRequest]
         ELSE LET domain_len == rest[1] IN
              IF Len(rest) < 1 + domain_len THEN [status |-> "eof", request |-> NoRequest]
              ELSE LET domain_buf == SubSeq(rest, 2, 1 + domain_len) IN
                   IF ~IsValidUtf8(domain_buf) THEN [status |-> "utf8", request |-> NoRequest]
                   ELSE IF Len(rest) < 1 + domain_len + 2
                        THEN [status |-> "eof", request |-> NoRequest]
                   ELSE [status |-> "ok",
                         request |-> [command |-> command,
                                      address |-> Address("DomainName", domain_buf),
                                      port |-> U16FromBe(SubSeq(rest, 2 + domain_len,
                                                                3 + domain_len))]]

new_error_v6(reply_code) ==
    [reply |-> reply_code, address |-> Address("IPv6", [i \in 1..16 |-> 0]), port |-> 0]
\* Socks5Response::new_error / new_success
new_error(reply_code) ==
    [reply |-> reply_code, address |-> Address("IPv4", <<0, 0, 0, 0>>), port |-> 0]

new_success_refused(bind_addr) ==
    [reply |-> 1, address |-> bind_addr.ip, port |-> bind_addr.port]
new_success(bind_addr) ==
    [reply |-> 0, address |-> bind_addr.ip, port |-> bind_addr.port]

\* Socks5Handler::send_response: the bytes put into the buffer and written
send_response(response) ==
    <<5, response.reply, 0>>
    \o (IF response.address.type = "IPv4" THEN <<1>> \o response.address.bytes
        ELSE IF response.address.type = "IPv6" THEN <<4>> \o response.address.bytes
        ELSE <<3, Len(response.address.bytes) % 256>> \o response.address.bytes)
    \o U16ToBe(response.port)


\* SocketAddr
SocketAddr(ip, port) == [ip |-> ip, port |-> port]

NoAddr == SocketAddr(Address("none", <<>>), 0)

Loopback4 == <<127, 0, 0, 1>>
Loopback6 == <<0, 0, 0, 0, 0, 0, 0, 0, 0, 0, 0, 0, 0, 0, 0, 1>>

resolve_empty_ok(address, port, lookup) ==
    IF address.type = "IPv4" THEN [ok |-> TRUE, addr |-> SocketAddr(address, port)]
    ELSE IF address.type = "IPv6" THEN [ok |-> TRUE, addr |-> SocketAddr(address, port)]
    ELSE IF lookup.status = "error" THEN [ok |-> FALSE, addr |-> NoAddr]
    ELSE [ok |-> TRUE, addr |-> SocketAddr(Address("IPv4", <<0, 0, 0, 0>>), port)]
\* Address::resolve.  lookup is what resolver.lookup_ip gives for a domain
\* name: status "error" (the lookup failed), "empty" (no record) or "found"
\* with ip the first address of the answer.
resolve(address, port, lookup) ==
    IF address.type = "IPv4" THEN [ok |-> TRUE, addr |-> SocketAddr(address, port)]
    ELSE IF address.type = "IPv6" THEN [ok |-> TRUE, addr |-> SocketAddr(address, port)]
    ELSE IF lookup.status = "error" THEN [ok |-> FALSE, addr |-> NoAddr]
    ELSE IF lookup.status = "empty" THEN [ok |-> FALSE, addr |-> NoAddr]
    ELSE [ok |-> TRUE, addr |-> SocketAddr(lookup.ip, port)]

Lookups == { [status |-> "error", ip |-> Address("none", <<>>)],
             [status |-> "empty", ip |-> Address("none", <<>>)],
             [status |-> "found", ip |-> Address("IPv4", Loopback4)],
             [status |-> "found", ip |-> Address("IPv6", Loopback6)] }

\* TcpStream::local_addr of the outbound socket: an address of the target's
\* family with an ephemeral port
LocalPort == 40000
local_addr(target_addr) ==
    SocketAddr(Address(target_addr.ip.type,
                       IF target_addr.ip.type = "IPv4" THEN Loopback4 ELSE Loopback6),
               LocalPort)

\* ------------------------------------------------------------- HTTP proxy
\* HttpProxyHandler::send_error_response
send_error_response(status_code, message) ==
    "HTTP/1.1 " \o ToString(status_code) \o " " \o message
    \o "\r\nContent-Length: " \o ToString(Len(message))
    \o "\r\nConnection: close\r\n\r\n" \o message

AuthRequiredMessage ==
    "Proxy Authentication Required\r\nProxy-Authenticate: Basic realm=\"Proxy\""

ConnectionEstablished_short == "HTTP/1.1 200 OK\r\n\r\n"
\* handle_connect: the response to a CONNECT whose tunnel is up
ConnectionEstablished == "HTTP/1.1 200 Connection Established\r\n\r\n"

\* SqlAuthenticator::authenticate: the result of the query, then the hash
\* check; a database error is answered Ok(false)
SqlAuthenticate(db) ==
    IF db = "row_match" THEN "OkTrue"
    ELSE IF db = "row_mismatch" THEN "OkFalse"
    ELSE IF db = "no_row" THEN "OkFalse"
    ELSE "OkFalse"

DbResults == {"row_match", "row_mismatch", "no_row", "db_error"}

\* what Authenticator::authenticate (config.validate_user on the SOCKS5
\* side) can return, over the backends
AuthOutcomes == {"OkTrue", "OkFalse", "Err"} \cup { SqlAuthenticate(db) : db \in DbResults }

\* the outcomes there are for the handler of a server: without an
\* authenticator instance no call is made and none comes back
AuthOutcomesOf(authenticator_) == IF authenticator_ THEN AuthOutcomes ELSE {"none"}

\* The Proxy-Authorization header of a parsed request, by what validate_auth
\* finds in it: "absent", "not_basic", "bad_base64", "no_colon", "credentials"
AuthHeaders == {"absent", "not_basic", "bad_base64", "no_colon", "credentials"}

validate_auth_lenient(auth_enabled_, header, authenticator_, outcome) ==
    IF ~auth_enabled_ THEN [valid |-> TRUE, called |-> FALSE]
    ELSE IF header \in {"absent", "not_basic", "bad_base64"}
    THEN [valid |-> FALSE, called |-> FALSE]
    ELSE IF authenticator_
         THEN [valid |-> outcome = "OkTrue", called |-> TRUE]
         ELSE [valid |-> FALSE, called |-> FALSE]
validate_auth_failopen(auth_enabled_, header, authenticator_, outcome) ==
    IF ~auth_enabled_ THEN [valid |-> TRUE, called |-> FALSE]
    ELSE IF header # "credentials" THEN [valid |-> FALSE, called |-> FALSE]
    ELSE IF authenticator_
         THEN [valid |-> outcome # "OkFalse", called |-> TRUE]
         ELSE [valid |-> FALSE, called |-> FALSE]
validate_auth_open_without(auth_enabled_, header, authenticator_, outcome) ==
    IF ~auth_enabled_ THEN [valid |-> TRUE, called |-> FALSE]
    ELSE IF header # "credentials" THEN [valid |-> FALSE, called |-> FALSE]
    ELSE IF authenticator_
         THEN [valid |-> outcome = "OkTrue", called |-> TRUE]
         ELSE [valid |-> TRUE, called |-> FALSE]
\* HttpProxyHandler::validate_auth.  authenticator is TRUE for Some(..).
\* Gives [valid, called, outcome]: called tells whether authenticate ran.
validate_auth(auth_enabled_, header, authenticator_, outcome) ==
    IF ~auth_enabled_ THEN [valid |-> TRUE, called |-> FALSE]
    ELSE IF header = "absent" THEN [valid |-> FALSE, called |-> FALSE]
    ELSE IF header = "not_basic" THEN [valid |-> FALSE, called |-> FALSE]
    ELSE IF header = "bad_base64" THEN [valid |-> FALSE, called |-> FALSE]
    ELSE IF header = "no_colon" THEN [valid |-> FALSE, called |-> FALSE]
    ELSE IF authenticator_
         THEN [valid |-> IF outcome = "OkTrue" THEN TRUE
                         ELSE IF outcome = "OkFalse" THEN FALSE
                         ELSE FALSE,
               called |-> TRUE]
         ELSE [valid |-> FALSE, called |-> FALSE]

\* A parsed HttpRequest, by what the handlers use of it: whether the method
\* is CONNECT, whether get_host_port succeeds, and the auth header
NoHttpRequest == [connect |-> FALSE, host_port_ok |-> FALSE, auth |-> "absent"]
HttpRequests == [connect : BOOLEAN, host_port_ok : BOOLEAN, auth : AuthHeaders]

SeqsUpTo(S, n) == UNION { [1..k -> S] : k \in 0..n }

\* ------------------------------------------------- HTTP request parsing
\* security.max_request_size, scaled down from the default 1024 * 1024
max_request_size == 100

\* bytes of a line of whitespace-separated parts, with its "\r\n"
RECURSIVE PartsLen(_)
PartsLen(parts) ==
    IF parts = <<>> THEN 0
    ELSE Len(parts[1]) + (IF Len(parts) > 1 THEN 1 ELSE 0) + PartsLen(Tail(parts))

LineLen(parts) == PartsLen(parts) + 2

\* a header line "name: value\r\n", or a line without ':' (name only)
HeaderLen(h) == IF h.colon THEN Len(h.name) + 2 + Len(h.value) + 2 ELSE Len(h.name) + 2

\* str::to_lowercase on the header names that occur
to_lowercase(n) ==
    IF n \in {"Proxy-Authorization", "PROXY-AUTHORIZATION", "proxy-authorization"}
    THEN "proxy-authorization"
    ELSE IF n \in {"Proxy-Connection", "proxy-connection"} THEN "proxy-connection"
    ELSE IF n = "Host" THEN "host"
    ELSE IF n = "X-Pad" THEN "x-pad"
    ELSE n

\* str::to_uppercase on the methods that occur
to_uppercase(m) == IF m \in {"connect", "Connect", "CONNECT"} THEN "CONNECT" ELSE m

\* HashMap::insert
insert(map, k, v) == [n \in DOMAIN map \cup {k} |-> IF n = k THEN v ELSE map[n]]

EmptyMap == [n \in {} |-> ""]

\* handle_request, the header loop from header i on: total_bytes_read is
\* checked after each read_line; 0 bytes read (EOF) or an empty line ends
\* the block; a line with ':' is inserted under its lower-cased name
RECURSIVE read_headers(_, _, _, _, _, _)
read_headers(hs, eof, i, total, headers, max_size) ==
    IF i > Len(hs)
    THEN LET t == total + (IF eof THEN 0 ELSE 2) IN
         IF t > max_size
         THEN [status |-> "too_large", headers |-> headers, consumed |-> t]
         ELSE [status |-> "ok", headers |-> headers, consumed |-> t]
    ELSE LET t == total + HeaderLen(hs[i]) IN
         IF t > max_size
         THEN [status |-> "too_large", headers |-> headers, consumed |-> t]
         ELSE read_headers(hs, eof, i + 1, t,
                           IF hs[i].colon
                           THEN insert(headers, to_lowercase(hs[i].name), hs[i].value)
                           ELSE headers,
                           max_size)

NoParsed == [method |-> "", uri |-> "", version |-> "", headers |-> EmptyMap]

\* HttpProxyHandler::handle_request on the message m the client sent:
\* m.line the parts of its first line (m.closed: nothing was sent),
\* m.headers its header lines, m.eof whether the stream ends without the
\* blank line.  consumed is total_bytes_read at the return.
http_handle_request(m, max_size) ==
    LET first == IF m.closed THEN 0 ELSE LineLen(m.line) IN
    IF first > max_size
    THEN [status |-> "too_large", request |-> NoParsed, consumed |-> first]
    ELSE IF m.closed
    THEN [status |-> "empty_line", request |-> NoParsed, consumed |-> first]
    ELSE IF Len(m.line) # 3
    THEN [status |-> "bad_request_line", request |-> NoParsed, consumed |-> first]
    ELSE LET r == read_headers(m.headers, m.eof, 1, first, EmptyMap, max_size) IN
         [status |-> r.status,
          request |-> IF r.status = "ok"
                      THEN [method |-> m.line[1], uri |-> m.line[2],
                            version |-> m.line[3], headers |-> r.headers]
                      ELSE NoParsed,
          consumed |-> r.consumed]

\* HttpRequest::is_connect
is_connect(request) == to_uppercase(request.method) = "CONNECT"

\* HttpRequest::get_host_port succeeds, on the URIs that occur: a CONNECT
\* URI must be host:port; another URI needs a non-empty authority
get_host_port_ok(request) ==
    IF is_connect(request)
    THEN request.uri \in {"h.io:443"}
    ELSE request.uri \in {"http://h.io/", "h.io:80"}

\* validate_auth up to the authenticator, on the header values that occur:
\* the scheme prefix, the base64 decoding, the split at the first ':'
BasicValues == {"Basic dTpw", "Basic dXA=", "Basic !!!"}
Base64Decodable == {"Basic dTpw", "Basic dXA="}
DecodedWithColon == {"Basic dTpw"}

auth_header_kind(headers) ==
    IF "proxy-authorization" \notin DOMAIN headers THEN "absent"
    ELSE LET v == headers["proxy-authorization"] IN
         IF v \notin BasicValues THEN "not_basic"
         ELSE IF v \notin Base64Decodable THEN "bad_base64"
         ELSE IF v \notin DecodedWithColon THEN "no_colon"
         ELSE "credentials"

\* the request as handle_http_connection uses it
request_view(request) ==
    [connect |-> is_connect(request),
     host_port_ok |-> get_host_port_ok(request),
     auth |-> auth_header_kind(request.headers)]

\* handle_regular_proxy: the request line and the headers written to the
\* target, as the set of names and the map of values
forwarded_headers_all(headers) == headers
forwarded_headers(headers) ==
    [n \in { k \in DOMAIN headers : k # "proxy-connection" /\ k # "proxy-authorization" }
        |-> headers[n]]

\* messages of clients
RequestLineParts ==
    { <<"CONNECT", "h.io:443", "HTTP/1.1">>,
      <<"connect", "h.io:443", "HTTP/1.1">>,
      <<"CONNECT", "h.io", "HTTP/1.1">>,
      <<"GET", "http://h.io/", "HTTP/1.1">>,
      <<"GET", "/", "HTTP/1.1">>,
      <<"GET", "http://h.io/">>,
      <<>> }

PadValue == "0123456789012345678901234567890123456789012345678901234567890123456789"

HeaderLines ==
    { [name |-> "Proxy-Authorization", value |-> "Basic dTpw", colon |-> TRUE],
      [name |-> "PROXY-AUTHORIZATION", value |-> "Basic dXA=", colon |-> TRUE],
      [name |-> "proxy-authorization", value |-> "Basic !!!", colon |-> TRUE],
      [name |-> "Proxy-Authorization", value |-> "Bearer x", colon |-> TRUE],
      [name |-> "Proxy-Connection", value |-> "keep-alive", colon |-> TRUE],
      [name |-> "Host", value |-> "h.io", colon |-> TRUE],
      [name |-> "X-Pad", value |-> PadValue, colon |-> TRUE],
      [name |-> "garbage", value |-> "", colon |-> FALSE] }

MaxHeaders == 2

HttpMessages ==
    { [closed |-> TRUE, line |-> <<>>, headers |-> <<>>, eof |-> TRUE] }
    \cup [closed : {FALSE}, line : RequestLineParts,
          headers : SeqsUpTo(HeaderLines, MaxHeaders), eof : BOOLEAN]

HttpMessageSample ==
    { [closed |-> FALSE, line |-> <<"CONNECT", "h.io:443", "HTTP/1.1">>,
       headers |-> << [name |-> "Proxy-Authorization", value |-> "Basic dTpw", colon |-> TRUE] >>,
       eof |-> FALSE],
      [closed |-> FALSE, line |-> <<"GET", "/", "HTTP/1.1">>,
       headers |-> << [name |-> "Proxy-Authorization", value |-> "Basic dTpw", colon |-> TRUE] >>,
       eof |-> FALSE],
      [closed |-> FALSE, line |-> <<"GET", "http://h.io/">>, headers |-> <<>>, eof |-> FALSE] }

HttpMessagesOf(full) == IF full THEN HttpMessages ELSE HttpMessageSample

\* what the client sends after the blank line of its request (a body, or
\* the first bytes for the tunnel), and what a target sends
AfterHeaders == { <<>>, <<7>>, <<7, 8>> }
AfterHeadersOf(full) == IF full THEN AfterHeaders ELSE { <<>> }
ClientStreams == { <<>>, <<7, 8>> }
ClientStreamsOf(full) == IF full THEN ClientStreams ELSE { <<>> }
TargetStreams == { <<>>, <<9>> }
TargetStreamsOf(full) == IF full THEN TargetStreams ELSE { <<>> }

\* one direction of a relay: src the bytes the sender has yet to give,
\* read the bytes read from it so far, deliv the bytes written to the receiver
NoFlow == [src |-> <<>>, read |-> <<>>, deliv |-> <<>>]
Flow(stream) == [src |-> stream, read |-> <<>>, deliv |-> <<>>]

\* what handle_regular_proxy wrote to the target before the relay
NoForward == [written |-> FALSE, line |-> <<>>, headers |-> EmptyMap]

\* ------------------------------------------------------- frames of clients
Prefixes(F) == UNION { { Take(f, k) : k \in 0..Len(f) } : f \in F }

MethodBytes == {0, 1, 2}
GreetingFrames ==
    {<<>>, <<5>>}
    \cup { <<v, n>> \o m : v \in {4, 5}, n \in 0..MaxMethods,
                           m \in SeqsUpTo(MethodBytes, MaxMethods) }

SubAuthFrames ==
    Prefixes({ <<v, Len(u)>> \o u \o <<Len(p)>> \o p :
                 v \in {1, 5}, u \in SeqsUpTo({97}, 1), p \in SeqsUpTo({98}, 1) })

AddrForms ==
    { <<1>> \o Loopback4, <<4>> \o Loopback6,
      <<3, 1, 97>>, <<3, 0>>, <<3, 1, 255>>, <<3, 2, 195, 169>>,
      <<7, 1, 97>>, <<7>> \o Loopback4 }
RequestFrames ==
    { <<v, cmd, 0>> \o a \o <<0, 80>> : v \in {4, 5}, cmd \in {1, 2, 3, 9}, a \in AddrForms }
    \cup Prefixes({ <<5, 1, 0>> \o a \o <<0, 80>> : a \in AddrForms })

\* Representative frames and answers, used where several connections run
\* side by side; the complete sets above are used for a single connection.
GreetingSample == { <<5, 1, 0>>, <<5, 1, 2>>, <<5, 2, 0, 2>>, <<5, 1, 1>>, <<4, 1, 0>>, <<5>> }
SubAuthSample == { <<1, 1, 97, 1, 98>>, <<5, 1, 97, 1, 98>>, <<1, 1, 97>> }
RequestSample ==
    { <<5, 1, 0, 3, 1, 97, 0, 80>>,
      <<5, 2, 0, 1>> \o Loopback4 \o <<0, 80>>,
      <<5, 3, 0, 1>> \o Loopback4 \o <<0, 80>>,
      <<4, 1, 0, 1>> \o Loopback4 \o <<0, 80>>,
      <<5, 1, 0, 1, 127>> }
LookupSample == { l \in Lookups : l.ip.type # "IPv6" }

GreetingFramesOf(full) == IF full THEN GreetingFrames ELSE GreetingSample
SubAuthFramesOf(full) == IF full THEN SubAuthFrames ELSE SubAuthSample
RequestFramesOf(full) == IF full THEN RequestFrames ELSE RequestSample
LookupsOf(full) == IF full THEN Lookups ELSE LookupSample


\* ---------------------------------------------------------------- startup
\* the fields of Config that validate() checks and the overrides touch;
\* authentication is off and allowed_networks empty, as in the default
DefaultConfig ==
    [socks5_port |-> 1080, http_port |-> 8080, bind_address |-> "127.0.0.1",
     max_connections |-> 1000, buffer_size |-> 8192, level |-> "info"]

\* str::parse::<IpAddr> succeeds
IpAddrs == {"127.0.0.1", "0.0.0.0"}
LogLevels == {"trace", "debug", "info", "warn", "error"}

\* Config::validate, on those fields
validate(config) ==
    /\ config.socks5_port # 0
    /\ config.http_port # 0
    /\ config.socks5_port # config.http_port
    /\ config.bind_address \in IpAddrs
    /\ config.max_connections # 0
    /\ config.buffer_size >= 1024
    /\ config.level \in LogLevels

\* what the file at config_path holds: nothing there, text that is no
\* Config, or a Config
FileConfigs ==
    [socks5_port : {0, 1080, 8080}, http_port : {0, 1080, 8080},
     bind_address : {"127.0.0.1", "not-an-ip"}, max_connections : {0, 1000},
     buffer_size : {512, 8192}, level : {"info", "loud"}]
Absent == [kind |-> "absent", config |-> DefaultConfig]
Files ==
    {Absent, [kind |-> "unparseable", config |-> DefaultConfig]}
    \cup {[kind |-> "config", config |-> c] : c \in FileConfigs}

\* Config::load_from_file: read, parse, validate
load_from_file(file) ==
    IF file.kind # "config" THEN [ok |-> FALSE, config |-> DefaultConfig]
    ELSE IF ~validate(file.config) THEN [ok |-> FALSE, config |-> DefaultConfig]
    ELSE [ok |-> TRUE, config |-> file.config]

\* main: the config to start from
load_or_default(file) ==
    IF file.kind = "absent" THEN DefaultConfig
    ELSE IF load_from_file(file).ok THEN load_from_file(file).config
    ELSE DefaultConfig

\* command line and environment: "none" for an option that is not given
Args ==
    [bind : {"none", "0.0.0.0", "not-an-ip"}, env_bind : {"none", "0.0.0.0"},
     http_port : {"none", "1080", "0", "x"}, socks5_port : {"none", "8080"},
     loglevel : {"none", "loud"}]

\* str::parse::<u16>
parse_u16(t) ==
    IF t = "1080" THEN [ok |-> TRUE, value |-> 1080]
    ELSE IF t = "8080" THEN [ok |-> TRUE, value |-> 8080]
    ELSE IF t = "0" THEN [ok |-> TRUE, value |-> 0]
    ELSE [ok |-> FALSE, value |-> 0]

\* main: the CLI/environment overrides, written into the config as given
apply_overrides(config, args) ==
    [config EXCEPT
       !.bind_address = IF args.bind # "none" THEN args.bind
                        ELSE IF args.env_bind # "none" THEN args.env_bind ELSE @,
       !.http_port = IF args.http_port # "none" /\ parse_u16(args.http_port).ok
                     THEN parse_u16(args.http_port).value ELSE @,
       !.socks5_port = IF args.socks5_port # "none" /\ parse_u16(args.socks5_port).ok
                       THEN parse_u16(args.socks5_port).value ELSE @,
       !.level = IF args.loglevel # "none" THEN args.loglevel ELSE @]

NoArgs == [bind |-> "none", env_bind |-> "none", http_port |-> "none",
           socks5_port |-> "none", loglevel |-> "none"]

\* the daemon up and serving with the default configuration
Serving ==
    [phase |-> "serving", file |-> Absent, args |-> NoArgs,
     config |-> DefaultConfig, listeners |-> Listeners, exit_code |-> 0]

\* -------------------------------------------------------- user credentials
HashTypes == {"Argon2", "Bcrypt", "Scrypt"}
\* the user name given to a command; the empty string is a String as well
Names == {"a", ""}
Passwords == {"p", "q"}
Salts == {1, 2}
MaxClock == 1

\* hash_password: the hash string carries the algorithm, the salt drawn at
\* random and the digest of the password under that salt; only Scrypt
\* keeps the salt in the entry as well
hash_password(hash_type, password, salt) ==
    [password_hash |-> [alg |-> hash_type, salt |-> salt, pw |-> password],
     salt |-> IF hash_type = "Scrypt" THEN salt ELSE 0]

\* a hash string that is no hash of any algorithm, and the empty string
Garbage == [alg |-> "none", salt |-> 0, pw |-> ""]
Empty == [alg |-> "", salt |-> 0, pw |-> ""]

\* verify_argon2_password / verify_bcrypt_password / verify_scrypt_password:
\* the string parses as a hash of that algorithm and the password gives the
\* same digest under its salt
verify_hash(hash_type, password, hash) ==
    /\ hash.alg = hash_type
    /\ hash.pw = password

EmptyUsers == [n \in {} |-> Garbage]
EmptyStore(ht) == [hash_type |-> ht, users |-> EmptyUsers, clock |-> 0,
                   last_op |-> "none", last_ok |-> TRUE, last_user |-> ""]

\* UserConfig::load_from_file of a file whose one user has a hash string
\* that no algorithm produced (validate only asks for a non-empty one)
LoadedStore(ht) ==
    [EmptyStore(ht) EXCEPT
       !.users = insert(EmptyUsers, "a",
                        [password_hash |-> Garbage, salt |-> 0, created_at |-> 0,
                         last_modified |-> 0, enabled |-> TRUE]),
       !.last_op = "load_from_file"]

verify_password_any(uc, username, password) ==
    IF username \in DOMAIN uc.users
    THEN verify_hash(uc.hash_type, password, uc.users[username].password_hash)
    ELSE FALSE
\* UserConfig::verify_password
verify_password(uc, username, password) ==
    IF username \in DOMAIN uc.users
    THEN IF ~uc.users[username].enabled THEN FALSE
         ELSE verify_hash(uc.hash_type, password, uc.users[username].password_hash)
    ELSE FALSE

\* SimpleAuthenticator::authenticate
simple_authenticate(uc, username, password) ==
    IF verify_password(uc, username, password) THEN "OkTrue" ELSE "OkFalse"

\* UserConfig::add_user at time now with the salt drawn
add_user(uc, username, password, salt, now) ==
    IF username \in DOMAIN uc.users
    THEN [uc EXCEPT !.last_op = "add_user", !.last_ok = FALSE, !.last_user = username]
    ELSE LET h == hash_password(uc.hash_type, password, salt) IN
         [uc EXCEPT !.users = insert(@, username,
                                     [password_hash |-> h.password_hash, salt |-> h.salt,
                                      created_at |-> now, last_modified |-> now,
                                      enabled |-> TRUE]),
                    !.last_op = "add_user", !.last_ok = TRUE, !.last_user = username]

\* UserConfig::remove_user
remove_user(uc, username) ==
    IF username \notin DOMAIN uc.users
    THEN [uc EXCEPT !.last_op = "remove_user", !.last_ok = FALSE, !.last_user = username]
    ELSE [uc EXCEPT !.users = [n \in DOMAIN uc.users \ {username} |-> uc.users[n]],
                    !.last_op = "remove_user", !.last_ok = TRUE, !.last_user = username]

update_password_restamps_all(uc, username, new_password, salt, now) ==
    LET h == hash_password(uc.hash_type, new_password, salt) IN
    IF username \notin DOMAIN uc.users
    THEN [uc EXCEPT !.last_op = "update_password", !.last_ok = FALSE, !.last_user = username]
    ELSE [uc EXCEPT !.users = [n \in DOMAIN uc.users |->
                                 IF n = username
                                 THEN [uc.users[n] EXCEPT !.password_hash = h.password_hash,
                                                          !.salt = h.salt,
                                                          !.created_at = now,
                                                          !.last_modified = now]
                                 ELSE [uc.users[n] EXCEPT !.last_modified = now]],
                    !.last_op = "update_password", !.last_ok = TRUE, !.last_user = username]
\* UserConfig::update_password: the new hash is made first, then the user
\* is looked up
update_password(uc, username, new_password, salt, now) ==
    LET h == hash_password(uc.hash_type, new_password, salt) IN
    IF username \notin DOMAIN uc.users
    THEN [uc EXCEPT !.last_op = "update_password", !.last_ok = FALSE, !.last_user = username]
    ELSE [uc EXCEPT !.users[username].password_hash = h.password_hash,
                    !.users[username].salt = h.salt,
                    !.users[username].last_modified = now,
                    !.last_op = "update_password", !.last_ok = TRUE, !.last_user = username]

\* UserConfig::enable_user
enable_user(uc, username, enabled, now) ==
    IF username \notin DOMAIN uc.users
    THEN [uc EXCEPT !.last_op = "enable_user", !.last_ok = FALSE, !.last_user = username]
    ELSE [uc EXCEPT !.users[username].enabled = enabled,
                    !.users[username].last_modified = now,
                    !.last_op = "enable_user", !.last_ok = TRUE, !.last_user = username]

\* serde: the names of the HashType variants in the file
hash_type_rename(ht) ==
    IF ht = "Argon2" THEN "argon2" ELSE IF ht = "Bcrypt" THEN "bcrypt" ELSE "scrypt"

\* serde: the variant a name in the file stands for ("" for no variant)
hash_type_variant(t) ==
    IF t = "argon2" THEN "Argon2"
    ELSE IF t = "bcrypt" THEN "Bcrypt"
    ELSE IF t = "scrypt" THEN "Scrypt" ELSE ""

\* serde_yaml::to_string of a UserEntry: enabled as true/false, the
\* absent salt as null, the strings as they are
entry_to_yaml(e) ==
    [password_hash |-> e.password_hash,
     salt |-> IF e.salt = 0 THEN "null" ELSE ToString(e.salt),
     created_at |-> e.created_at, last_modified |-> e.last_modified,
     enabled |-> IF e.enabled THEN "true" ELSE "false"]

\* serde_yaml::from_str of a UserEntry
entry_from_yaml(y) ==
    [password_hash |-> y.password_hash,
     salt |-> IF y.salt = "null" THEN 0
              ELSE CHOOSE n \in Salts \cup {0} : ToString(n) = y.salt,
     created_at |-> y.created_at, last_modified |-> y.last_modified,
     enabled |-> y.enabled = "true"]

\* UserConfig::save_to_file: the document written
save_to_file(uc) ==
    [hash_type |-> hash_type_rename(uc.hash_type),
     users |-> [n \in DOMAIN uc.users |-> entry_to_yaml(uc.users[n])]]

\* UserConfig::validate
user_config_validate(users) ==
    \A n \in DOMAIN users : n # "" /\ users[n].password_hash # Empty

\* UserConfig::load_from_file of a document: parse, then validate
user_load_from_file(doc) ==
    LET ht == hash_type_variant(doc.hash_type)
        users == [n \in DOMAIN doc.users |-> entry_from_yaml(doc.users[n])] IN
    IF ht = "" THEN [ok |-> FALSE, hash_type |-> "", users |-> EmptyUsers]
    ELSE IF ~user_config_validate(users)
    THEN [ok |-> FALSE, hash_type |-> "", users |-> EmptyUsers]
    ELSE [ok |-> TRUE, hash_type |-> ht, users |-> users]

\* ------------------------------------------------------------------- LDAP
\* a string is the sequence of its characters; NUL stands for U+0000
MaxName == 3
NameChars == {"a", "\\", "*", "(", ")", "NUL"}

\* str::replace: every non-overlapping match of pat, from the left
RECURSIVE str_replace(_, _, _)
str_replace(s, pat, to) ==
    IF Len(s) < Len(pat) THEN s
    ELSE IF Take(s, Len(pat)) = pat THEN to \o str_replace(Drop(s, Len(pat)), pat, to)
    ELSE <<Head(s)>> \o str_replace(Tail(s), pat, to)

escape_filter_value_backslash_last(value) ==
    str_replace(
      str_replace(
        str_replace(
          str_replace(
            str_replace(value, <<"*">>, <<"\\", "2", "a">>),
            <<"(">>, <<"\\", "2", "8">>),
          <<")">>, <<"\\", "2", "9">>),
        <<"NUL">>, <<"\\", "0", "0">>),
      <<"\\">>, <<"\\", "5", "c">>)
\* LdapAuthenticator::escape_filter_value: five replace passes, the
\* backslash first
escape_filter_value(value) ==
    str_replace(
      str_replace(
        str_replace(
          str_replace(
            str_replace(value, <<"\\">>, <<"\\", "5", "c">>),
            <<"*">>, <<"\\", "2", "a">>),
          <<"(">>, <<"\\", "2", "8">>),
        <<")">>, <<"\\", "2", "9">>),
      <<"NUL">>, <<"\\", "0", "0">>)

\* authenticate, step 2: the search filter for a username
search_filter(user_filter, username) ==
    str_replace(user_filter, <<"{", "}">>, escape_filter_value(username))

UidFilter == <<"(", "u", "i", "d", "=", "{", "}", ")">>
UserFilters ==
    { UidFilter,
      <<"(", "|", "(", "u", "i", "d", "=", "{", "}", ")",
        "(", "c", "n", "=", "{", "}", ")", ")">>,
      <<"(", "u", "i", "d", "=", "*", ")">> }

InjectionName == <<"a", "d", "m", "i", "n", ")", "(", "u", "i", "d", "=", "*">>
Usernames == SeqsUpTo(NameChars, MaxName) \cup {InjectionName, <<"{", "}">>}

\* what the directory answers: a transport error, a result with an error
\* code, or success; the number of entries a search gives
LdapResults == {"Err", "Failure", "Success"}
EntryCounts == {0, 1, 2}

NoLdap == [pc |-> "idle", username |-> <<>>, user_filter |-> <<>>, filter |-> <<>>,
           result |-> "none", hist |-> <<>>]

\* ------------------------------------------------------ Socks5Response values
\* a String of n bytes
DomainOf(n) == [i \in 1..n |-> 97]
DomainLens == {0, 1, 2, 255, 256, 257}
ResponseAddresses ==
    { Address("IPv4", <<0, 0, 0, 0>>), Address("IPv4", Loopback4),
      Address("IPv6", Loopback6), Address("IPv6", [i \in 1..16 |-> 255]) }
    \cup { Address("DomainName", DomainOf(n)) : n \in DomainLens }
Replies == {0, 1, 4, 5, 7, 255}
Ports == {0, 80, 256, 65535}
Responses == [reply : Replies, address : ResponseAddresses, port : Ports]

NoCodec == [pc |-> "idle", response |-> new_error(0), bytes |-> <<>>]

\* ------------------------------------------------- HttpRequest::get_host_port
\* A URI is a sequence of characters.
MaxUri == 4
UriChars == {"h", ":", "/", "8", "+"}
Digits == <<"0", "1", "2", "3", "4", "5", "6", "7", "8", "9">>

starts_with(s, p) == Len(s) >= Len(p) /\ SubSeq(s, 1, Len(p)) = p

\* str::split(ch), collected: the pieces between the occurrences of ch, one
\* more than there are occurrences
RECURSIVE split(_, _)
split(s, ch) ==
    IF \A i \in 1..Len(s) : s[i] # ch THEN <<s>>
    ELSE LET k == CHOOSE i \in 1..Len(s) : s[i] = ch /\ \A j \in 1..(i - 1) : s[j] # ch
         IN <<SubSeq(s, 1, k - 1)>> \o split(SubSeq(s, k + 1, Len(s)), ch)

digit(ch) == CHOOSE d \in 0..9 : Digits[d + 1] = ch
is_digit(ch) == \E d \in 0..9 : Digits[d + 1] = ch

\* the digits of a u16 from the left, with checked_mul and checked_add
RECURSIVE from_digits(_, _)
from_digits(s, acc) ==
    IF s = <<>> THEN [ok |-> TRUE, value |-> acc]
    ELSE IF ~is_digit(s[1]) \/ acc * 10 + digit(s[1]) > 65535 THEN [ok |-> FALSE, value |-> 0]
    ELSE from_digits(Tail(s), acc * 10 + digit(s[1]))

\* u16::from_str: an optional '+', then at least one digit, no overflow
parse_u16_str(s) ==
    LET digits == IF s # <<>> /\ s[1] = "+" THEN Tail(s) ELSE s IN
    IF digits = <<>> THEN [ok |-> FALSE, value |-> 0] ELSE from_digits(digits, 0)

HostPortErr == [ok |-> FALSE, host |-> <<>>, port |-> 0]
HostPort(host, port) == [ok |-> TRUE, host |-> host, port |-> port]

parse_connect_uri(uri) ==
    LET parts == split(uri, ":") IN
    IF Len(parts) # 2 THEN HostPortErr
    ELSE IF ~parse_u16_str(parts[2]).ok THEN HostPortErr
    ELSE HostPort(parts[1], parse_u16_str(parts[2]).value)

Http == <<"h", "t", "t", "p", ":", "/", "/">>
Https == <<"h", "t", "t", "p", "s", ":", "/", "/">>

\* parse_proxy_uri with the default port always 80
parse_proxy_uri_always_80(uri) ==
    LET rest == IF starts_with(uri, Http) THEN SubSeq(uri, 8, Len(uri))
                ELSE IF starts_with(uri, Https) THEN SubSeq(uri, 9, Len(uri))
                ELSE uri
        parts == split(split(rest, "/")[1], ":")
    IN IF parts = <<>> \/ parts[1] = <<>> THEN HostPortErr
       ELSE IF Len(parts) > 1
            THEN IF parse_u16_str(parts[2]).ok
                 THEN HostPort(parts[1], parse_u16_str(parts[2]).value)
                 ELSE HostPortErr
            ELSE HostPort(parts[1], 80)

parse_proxy_uri(uri) ==
    LET rest == IF starts_with(uri, Http) THEN SubSeq(uri, 8, Len(uri))
                ELSE IF starts_with(uri, Https) THEN SubSeq(uri, 9, Len(uri))
                ELSE uri
        parts == split(split(rest, "/")[1], ":")
    IN IF parts = <<>> \/ parts[1] = <<>> THEN HostPortErr
       ELSE IF Len(parts) > 1
            THEN IF parse_u16_str(parts[2]).ok
                 THEN HostPort(parts[1], parse_u16_str(parts[2]).value)
                 ELSE HostPortErr
            ELSE IF starts_with(uri, Https) THEN HostPort(parts[1], 443)
            ELSE HostPort(parts[1], 80)

get_host_port(request) ==
    IF is_connect(request) THEN parse_connect_uri(request.uri)
    ELSE parse_proxy_uri(request.uri)

\* the URIs tried: every text of up to MaxUri characters, bare and after
\* each scheme, and ports at the ends of the u16 range
UriSchemes == {<<>>, Http, Https}
UriPorts ==
    { <<"h", ":", "6", "5", "5", "3", "5">>, <<"h", ":", "6", "5", "5", "3", "6">>,
      <<"h", ":", "0">>, <<"h", ":", "0", "8", "0">>, <<"h", ":", "+", "8", "0">>,
      <<"h", ":", "8", "0", "/", ":", "9">>, <<"h", ":", "8", ":", "9">> }
Uris ==
    { sch \o rest : sch \in UriSchemes, rest \in SeqsUpTo(UriChars, MaxUri) \cup UriPorts }
UriMethods == {"CONNECT", "connect", "GET"}

NoUriParse == [pc |-> "idle", method |-> "", uri |-> <<>>, result |-> HostPortErr]

\* ------------------------------------------------------------------ state
VARIABLES
    auth_enabled,   \* config.auth.enabled, read-only after start
    authenticator,  \* ProxyServer::authenticator is Some(..)
    permits,        \* available permits of connection_semaphore
    lpc,            \* per accept loop: "accept", "acquire" (waiting for a permit) or "sleep"
    pending,        \* per accept loop: the accepted client it holds while acquiring, or 0
    waiters,        \* the accept loops waiting in acquire_owned, in the order they called it
    pool,           \* client slots free for a new client to connect
    conn,           \* per client slot: the live connection and its handler task
    last_done,      \* the connection whose task ended last, as it was at its end
    last_frame,     \* the frame the last protocol read consumed (single-connection runs)
    boot,           \* the start of the daemon: config file, overrides, config in use, outcome
    user_config,    \* the user credential store the user commands work on
    ldap,           \* one call of LdapAuthenticator::authenticate and its position
    codec,          \* one Socks5Response and the bytes send_response wrote for it
    uri_parse,      \* one HttpRequest and what get_host_port returned for it
    time            \* the clock, and per client slot when it was accepted and when its deadline is

vars == <<auth_enabled, authenticator, permits, lpc, pending, waiters, pool, conn, last_done, last_frame,
          boot, user_config, ldap, codec, uri_parse, time>>

RunningPcs == {"greeting", "subauth", "request", "resolve", "connect", "respond",
               "relay", "h_request", "h_auth", "h_connect"}

\* config.server.connection_timeout and the last instant of the clock, in
\* units of the clock
connection_timeout == 1
MaxTime == 2

\* no time has passed, no task has a deadline of its own
NoTime == [now |-> 0, accepted |-> [c \in Clients |-> 0],
           deadline |-> [c \in Clients |-> connection_timeout]]

\* timeout(timeout_duration, ..) is made inside the spawned task: the
\* deadline is timeout_duration after the instant the task starts
deadline_from_spawn(t, c) == t.now + connection_timeout

\* a slot with no connection
Idle == [pc |-> "idle", listener |-> "none", permit |-> FALSE,
         client |-> "none", target |-> "none",
         out |-> <<>>, hout |-> "", result |-> "none", authres |-> "none",
         req |-> NoRequest, hreq |-> NoHttpRequest, target_addr |-> NoAddr,
         hist |-> <<>>,
         parsed |-> NoParsed, consumed |-> 0, after |-> <<>>, buffered |-> 0,
         tout |-> NoForward, up |-> NoFlow, down |-> NoFlow]

\* ProxyServer::create: Some(authenticator) when auth is enabled and the
\* backend is not None.  A config that passed validate has a backend
\* other than None when auth is enabled; create takes any Config.
AuthBackends == {"None", "Simple"}
create(enabled, backend) == enabled /\ backend # "None"

\* Semaphore::new(max_connections)
Init ==
    /\ auth_enabled \in BOOLEAN
    /\ \E backend \in AuthBackends : authenticator = create(auth_enabled, backend)
    /\ permits = max_connections
    /\ lpc = [l \in Listeners |-> "accept"]
    /\ pending = [l \in Listeners |-> 0]
    /\ waiters = <<>>
    /\ pool = Clients
    /\ conn = [c \in Clients |-> Idle]
    /\ last_done = Idle
    /\ last_frame = <<>>
    /\ boot = Serving
    /\ ldap = NoLdap
    /\ codec = NoCodec
    /\ uri_parse = NoUriParse
    /\ time = NoTime
    /\ user_config = EmptyStore("Argon2")

\* the same server with a single client ever connecting
InitOne ==
    /\ auth_enabled \in BOOLEAN
    /\ \E backend \in AuthBackends : authenticator = create(auth_enabled, backend)
    /\ permits = max_connections
    /\ lpc = [l \in Listeners |-> "accept"]
    /\ pending = [l \in Listeners |-> 0]
    /\ waiters = <<>>
    /\ pool = {1}
    /\ conn = [c \in Clients |-> Idle]
    /\ last_done = Idle
    /\ last_frame = <<>>
    /\ boot = Serving
    /\ ldap = NoLdap
    /\ codec = NoCodec
    /\ uri_parse = NoUriParse
    /\ time = NoTime
    /\ user_config = EmptyStore("Argon2")

\* the same server with two client slots
InitTwo ==
    /\ auth_enabled \in BOOLEAN
    /\ \E backend \in AuthBackends : authenticator = create(auth_enabled, backend)
    /\ permits = max_connections
    /\ lpc = [l \in Listeners |-> "accept"]
    /\ pending = [l \in Listeners |-> 0]
    /\ waiters = <<>>
    /\ pool = {1, 2}
    /\ conn = [c \in Clients |-> Idle]
    /\ last_done = Idle
    /\ last_frame = <<>>
    /\ boot = Serving
    /\ ldap = NoLdap
    /\ codec = NoCodec
    /\ uri_parse = NoUriParse
    /\ time = NoTime
    /\ user_config = EmptyStore("Argon2")

\* Semaphore: acquire_owned takes one permit when one is available; dropping
\* the OwnedSemaphorePermit gives it back
acquire_owned_kept(p) == p
acquire_owned(p) == p - 1
granted_any(w, l) == \E i \in 1..Len(w) : w[i] = l
\* the semaphore is fair: a permit goes to the waiter that asked first
granted(w, l) == w # <<>> /\ Head(w) = l
drop_permit_leaked(p) == p
drop_permit(p) == p + 1

\* The end of a connection task (the closure of tokio::spawn): the handler
\* future has returned or was dropped by timeout, which drops the client
\* stream and the outbound stream it owns; the outcome is logged; _permit
\* is dropped.
Finished(cn, res) ==
    [cn EXCEPT !.pc = "ended", !.result = res, !.client = "closed",
               !.target = IF cn.target = "open" THEN "closed" ELSE cn.target,
               !.permit = FALSE,
               !.req = NoRequest, !.hreq = NoHttpRequest, !.target_addr = NoAddr]

\* the handler of c goes on as cn
Step(c, cn) ==
    /\ conn' = [conn EXCEPT ![c] = cn]
    /\ UNCHANGED <<waiters, ldap, codec, uri_parse, time, boot, user_config, auth_enabled, authenticator, permits, lpc, pending, pool, last_done>>

End_stops_loop(c, cn, res, one) ==
    /\ last_done' = Finished(cn, res)
    /\ conn' = [conn EXCEPT ![c] = Idle]
    /\ permits' = drop_permit(permits)
    /\ pool' = IF one THEN pool ELSE pool \cup {c}
    /\ lpc' = IF res = "failed" THEN [lpc EXCEPT ![cn.listener] = "stopped"] ELSE lpc
    /\ time' = [time EXCEPT !.accepted[c] = 0, !.deadline[c] = connection_timeout]
    /\ UNCHANGED <<waiters, ldap, codec, uri_parse, boot, user_config, auth_enabled, authenticator, pending>>
\* The task of c ends with outcome res, its connection being cn: nothing of
\* it is left in the server.  Where several connections run side by side
\* (one = FALSE) the slot is free for the next client.
End(c, cn, res, one) ==
    /\ last_done' = Finished(cn, res)
    /\ conn' = [conn EXCEPT ![c] = Idle]
    /\ permits' = drop_permit(permits)
    /\ pool' = IF one THEN pool ELSE pool \cup {c}
    /\ time' = [time EXCEPT !.accepted[c] = 0, !.deadline[c] = connection_timeout]
    /\ UNCHANGED <<waiters, ldap, codec, uri_parse, boot, user_config, auth_enabled, authenticator, lpc, pending>>

\* single-connection runs record the frame read
Trace(one, f) == last_frame' = IF one THEN f ELSE last_frame

Min(S) == CHOOSE x \in S : \A y \in S : x <= y

\* ---------------------------------------------------------- accept loops
\* listener.accept() returns Ok((stream, addr)); the new connection takes
\* the free slot of the lowest number
Accept(l) ==
    /\ lpc[l] = "accept"
    /\ pool # {}
    /\ LET c == Min(pool) IN
       /\ pool' = pool \ {c}
       /\ conn' = [conn EXCEPT ![c] = [@ EXCEPT !.pc = "waiting", !.listener = l,
                                                !.client = "open"]]
       /\ pending' = [pending EXCEPT ![l] = c]
    /\ lpc' = [lpc EXCEPT ![l] = "acquire"]
    /\ waiters' = Append(waiters, l)
    /\ time' = [time EXCEPT !.accepted[Min(pool)] = time.now]
    /\ UNCHANGED <<ldap, codec, uri_parse, boot, user_config, auth_enabled, authenticator, permits, last_done, last_frame>>

AcceptFail_stops(l) ==
    /\ lpc[l] = "accept"
    /\ lpc' = [lpc EXCEPT ![l] = "stopped"]
    /\ UNCHANGED <<waiters, ldap, codec, uri_parse, time, boot, user_config, auth_enabled, authenticator, permits, pending, pool, conn, last_done, last_frame>>
\* listener.accept() returns Err: log and sleep 100 ms
AcceptFail(l) ==
    /\ lpc[l] = "accept"
    /\ lpc' = [lpc EXCEPT ![l] = "sleep"]
    /\ UNCHANGED <<waiters, ldap, codec, uri_parse, time, boot, user_config, auth_enabled, authenticator, permits, pending, pool, conn, last_done, last_frame>>

\* the sleep is over: next iteration of the loop
Wake(l) ==
    /\ lpc[l] = "sleep"
    /\ lpc' = [lpc EXCEPT ![l] = "accept"]
    /\ UNCHANGED <<waiters, ldap, codec, uri_parse, time, boot, user_config, auth_enabled, authenticator, permits, pending, pool, conn, last_done, last_frame>>

\* semaphore.acquire_owned() completes and the task is spawned with the
\* permit and the stream moved into it
Spawn(l) ==
    /\ lpc[l] = "acquire"
    /\ permits > 0
    /\ granted(waiters, l)
    /\ waiters' = SelectSeq(waiters, LAMBDA w : w # l)
    /\ permits' = acquire_owned(permits)
    /\ conn' = [conn EXCEPT ![pending[l]] =
                   [@ EXCEPT !.permit = TRUE,
                             !.pc = IF l = "socks5" THEN "greeting" ELSE "h_request"]]
    /\ pending' = [pending EXCEPT ![l] = 0]
    /\ lpc' = [lpc EXCEPT ![l] = "accept"]
    /\ time' = [time EXCEPT !.deadline[pending[l]] = deadline_from_spawn(time, pending[l])]
    /\ UNCHANGED <<ldap, codec, uri_parse, boot, user_config, auth_enabled, authenticator, pool, last_done, last_frame>>

timeout_covers_not_relay(pc) == pc \in RunningPcs \ {"relay"}
\* timeout(timeout_duration, handle_.._connection(..)): the whole handler
\* future is inside the timeout, whatever await it is suspended at
timeout_covers(pc) == pc \in RunningPcs

\* the deadline of timeout(..) expires while the handler is suspended
Timeout(c, one) ==
    /\ timeout_covers(conn[c].pc)
    /\ End(c, conn[c], "timed_out", one)
    /\ UNCHANGED last_frame

\* ------------------------------------------------------- SOCKS5 handler
\* handle_socks5_connection: handle_handshake up to its reply
S5Handshake(c, one) ==
    /\ conn[c].pc = "greeting"
    /\ \E f \in GreetingFramesOf(one) :
          LET r == handle_handshake(f, auth_enabled)
              cn == [conn[c] EXCEPT !.out = @ \o r.reply, !.hist = Append(@, "greeting")]
          IN /\ Trace(one, f)
             /\ IF r.status = "selected" /\ r.method = NoAuth
                THEN Step(c, [cn EXCEPT !.pc = "request"])
                ELSE IF r.status = "selected" /\ r.method = UserPass
                THEN Step(c, [cn EXCEPT !.pc = "subauth"])
                ELSE End(c, cn, "failed", one)

\* handle_handshake: handle_user_pass_auth
S5UserPassAuth(c, one) ==
    /\ conn[c].pc = "subauth"
    /\ \E f \in SubAuthFramesOf(one), o \in AuthOutcomesOf(authenticator) :
          LET r == handle_user_pass_auth(f, o)
              cn == [conn[c] EXCEPT !.out = @ \o r.reply,
                                    !.authres = IF r.called THEN o ELSE "none",
                                    !.hist = Append(@, "subauth")]
          IN /\ Trace(one, f)
             /\ IF r.status = "ok"
                THEN Step(c, [cn EXCEPT !.pc = "request"])
                ELSE End(c, cn, "failed", one)

\* handle_socks5_connection: handle_request and the match on the command
S5Request(c, one) ==
    /\ conn[c].pc = "request"
    /\ \E f \in RequestFramesOf(one) :
          LET r == handle_request(f)
              cn == [conn[c] EXCEPT !.hist = Append(@, "request")]
          IN /\ Trace(one, f)
             /\ IF r.status # "ok" THEN End(c, cn, "failed", one)
                ELSE IF r.request.command = "Connect"
                THEN Step(c, [cn EXCEPT !.pc = "resolve", !.req = r.request])
                ELSE End(c, [cn EXCEPT !.out = @ \o send_response(new_error(7))],
                         "failed", one)

\* handle_socks5_connect: request.address.resolve; the history records what
\* the resolver answered ("literal" when the address needs no lookup)
S5Resolve(c, one) ==
    /\ conn[c].pc = "resolve"
    /\ \E lk \in LookupsOf(one) :
          LET r == resolve(conn[c].req.address, conn[c].req.port, lk)
              ev == IF conn[c].req.address.type = "DomainName"
                    THEN "lookup_" \o lk.status ELSE "literal"
          IN
          IF r.ok
          THEN Step(c, [conn[c] EXCEPT !.pc = "connect", !.target_addr = r.addr,
                                       !.hist = Append(@, ev)])
          ELSE End(c, [conn[c] EXCEPT !.out = @ \o send_response(new_error(4)),
                                      !.hist = Append(@, ev)], "failed", one)
    /\ UNCHANGED last_frame

\* handle_socks5_connect: TcpStream::connect(target_addr)
S5Connect(c, one) ==
    /\ conn[c].pc = "connect"
    /\ \E ok \in BOOLEAN :
          IF ok
          THEN Step(c, [conn[c] EXCEPT !.pc = "respond", !.target = "open",
                                       !.hist = Append(@, "connect_ok")])
          ELSE End(c, [conn[c] EXCEPT !.out = @ \o send_response(new_error(5)),
                                      !.hist = Append(@, "connect_err")], "failed", one)
    /\ UNCHANGED last_frame

\* handle_socks5_connect: the success response, then relay_data is entered
\* with what the two endpoints are going to send
S5Respond(c, one) ==
    /\ conn[c].pc = "respond"
    /\ \E cs \in ClientStreamsOf(one), ts \in TargetStreamsOf(one) :
          Step(c, [conn[c] EXCEPT
                     !.pc = "relay",
                     !.out = @ \o send_response(new_success(local_addr(conn[c].target_addr))),
                     !.up = Flow(cs), !.down = Flow(ts),
                     !.hist = Append(@, "respond")])
    /\ UNCHANGED last_frame

\* copy_bidirectional, one direction: with its buffer written out, a read
\* takes the next k bytes of the sender into the buffer
copy_read(flow, k) ==
    [flow EXCEPT !.src = Drop(@, k), !.read = @ \o Take(flow.src, k)]

copy_write_restart(flow, k) ==
    [flow EXCEPT !.deliv = @ \o Take(flow.read, k)]
\* copy_bidirectional, one direction: a write takes the next k bytes of the
\* buffer that are not yet written
copy_write(flow, k) ==
    [flow EXCEPT !.deliv = @ \o Take(Drop(flow.read, Len(flow.deliv)), k)]

\* the direction has read EOF and written all it read
flow_done(flow) == flow.src = <<>> /\ flow.read = flow.deliv

Directions == {"up", "down"}
FlowOf(cn, d) == IF d = "up" THEN cn.up ELSE cn.down
WithFlow(cn, d, f) == IF d = "up" THEN [cn EXCEPT !.up = f] ELSE [cn EXCEPT !.down = f]

RelayRead(c, d) ==
    /\ conn[c].pc = "relay"
    /\ LET f == FlowOf(conn[c], d) IN
       /\ f.read = f.deliv
       /\ \E k \in 1..Len(f.src) : Step(c, WithFlow(conn[c], d, copy_read(f, k)))
    /\ UNCHANGED last_frame

RelayWrite(c, d) ==
    /\ conn[c].pc = "relay"
    /\ LET f == FlowOf(conn[c], d) IN
       \E k \in 1..(Len(f.read) - Len(f.deliv)) :
           Step(c, WithFlow(conn[c], d, copy_write(f, k)))
    /\ UNCHANGED last_frame

relay_data_propagates(copy_result) ==
    IF copy_result = "Ok" THEN "completed" ELSE "failed"
\* relay_data (both handlers): copy_bidirectional returns Ok((n1, n2)) or
\* Err(e); either way the result is Ok(())
relay_data(copy_result) ==
    IF copy_result = "Ok" THEN "completed" ELSE "completed"

\* the direction whose read or write fails (one is followed where several
\* connections run side by side)
FailingOf(full) == IF full THEN Directions ELSE {"up"}

RelayEnd_replies(c, one) ==
    /\ conn[c].pc = "relay"
    /\ \/ /\ flow_done(conn[c].up) /\ flow_done(conn[c].down)
          /\ End(c, [conn[c] EXCEPT !.hist = @ \o <<"relay", "copy_Ok">>],
                 relay_data("Ok"), one)
       \/ \E d \in FailingOf(one) :
             End(c, [conn[c] EXCEPT !.hist = @ \o <<"relay", "err_" \o d, "copy_Err">>,
                                    !.out = @ \o send_response(new_error(1))],
                 relay_data("Err"), one)
    /\ UNCHANGED last_frame
\* copy_bidirectional returns: Ok when both directions are done; Err as
\* soon as a read or a write of one direction fails, at any point and
\* whatever the other direction still has to carry
RelayEnd(c, one) ==
    /\ conn[c].pc = "relay"
    /\ \/ /\ flow_done(conn[c].up) /\ flow_done(conn[c].down)
          /\ End(c, [conn[c] EXCEPT !.hist = @ \o <<"relay", "copy_Ok">>],
                 relay_data("Ok"), one)
       \/ \E d \in FailingOf(one) :
             End(c, [conn[c] EXCEPT !.hist = @ \o <<"relay", "err_" \o d, "copy_Err">>],
                 relay_data("Err"), one)
    /\ UNCHANGED last_frame

\* --------------------------------------------------------- HTTP handler
HttpParseErrors == {"io_error", "too_large", "empty_line", "bad_request_line"}

\* handle_http_connection: handler.handle_request parses the request, or
\* fails and the handler returns the error.  While the lines are read the
\* BufReader also takes in the first k bytes the client sent after them
\* (bytes after the headers are followed for the representative messages).
HttpRequest(c, one) ==
    /\ conn[c].pc = "h_request"
    /\ \/ End(c, [conn[c] EXCEPT !.hist = @ \o <<"h_request", "io_error">>], "failed", one)
       \/ \E m \in HttpMessagesOf(one), a \in AfterHeadersOf(one) :
          \E k \in 0..Len(a) :
             LET r == http_handle_request(m, max_request_size) IN
             /\ (m.closed \/ m.eof) => a = <<>>
             /\ a # <<>> => m \in HttpMessageSample
             /\ IF r.status # "ok"
                THEN End(c, [conn[c] EXCEPT !.hist = @ \o <<"h_request", r.status>>,
                                            !.consumed = r.consumed], "failed", one)
                ELSE Step(c, [conn[c] EXCEPT !.pc = "h_auth",
                                             !.hreq = request_view(r.request),
                                             !.parsed = r.request,
                                             !.consumed = r.consumed,
                                             !.after = a, !.buffered = k,
                                             !.hist = Append(@, "h_request")])
    /\ UNCHANGED last_frame

\* handle_http_connection: validate_auth, the 407 response, get_host_port
HttpAuth(c, one) ==
    /\ conn[c].pc = "h_auth"
    /\ \E o \in AuthOutcomes :
          LET v == validate_auth(auth_enabled, conn[c].hreq.auth, authenticator, o)
              cn == [conn[c] EXCEPT !.authres = IF v.called THEN o ELSE "none",
                                    !.hist = Append(@, "h_auth")]
          IN IF ~v.valid
             THEN End(c, [cn EXCEPT !.hout = @ \o send_error_response(407, AuthRequiredMessage)],
                      "completed", one)
             ELSE IF ~cn.hreq.host_port_ok
             THEN End(c, cn, "failed", one)
             ELSE Step(c, [cn EXCEPT !.pc = "h_connect"])
    /\ UNCHANGED last_frame

\* BufReader::into_inner: the stream without the bytes left in the buffer
into_inner(after, buffered) == Drop(after, buffered)

\* handle_connect / handle_regular_proxy: TcpStream::connect((host, port)),
\* which resolves the name and connects; then the 200 line (CONNECT) or the
\* rewritten request to the target; then relay_data on the inner stream
HttpConnect(c, one) ==
    /\ conn[c].pc = "h_connect"
    /\ \/ \E e \in {"resolve_err", "connect_err"} :
             End(c, [conn[c] EXCEPT !.hist = Append(@, e)], "failed", one)
       \/ \E ts \in TargetStreamsOf(one) :
             Step(c, [conn[c] EXCEPT
                        !.pc = "relay", !.target = "open",
                        !.hout = IF conn[c].hreq.connect
                                 THEN @ \o ConnectionEstablished ELSE @,
                        !.tout = IF conn[c].hreq.connect THEN @
                                 ELSE [written |-> TRUE,
                                       line |-> <<conn[c].parsed.method, conn[c].parsed.uri,
                                                  conn[c].parsed.version>>,
                                       headers |-> forwarded_headers(conn[c].parsed.headers)],
                        !.up = Flow(into_inner(conn[c].after, conn[c].buffered)),
                        !.down = Flow(ts),
                        !.hist = Append(@, "connect_ok")])
    /\ UNCHANGED last_frame

\* ------------------------------------------------------- specifications
\* one = TRUE: a single connection, complete sets of frames, frames recorded
Handlers(one) ==
    \/ \E l \in Listeners : Accept(l)
    \/ \E l \in Listeners : AcceptFail(l)
    \/ \E l \in Listeners : Wake(l)
    \/ \E l \in Listeners : Spawn(l)
    \/ \E c \in Clients : S5Handshake(c, one)
    \/ \E c \in Clients : S5UserPassAuth(c, one)
    \/ \E c \in Clients : S5Request(c, one)
    \/ \E c \in Clients : S5Resolve(c, one)
    \/ \E c \in Clients : S5Connect(c, one)
    \/ \E c \in Clients : S5Respond(c, one)
    \/ \E c \in Clients : RelayEnd(c, one)
    \/ \E c \in Clients : HttpRequest(c, one)
    \/ \E c \in Clients : HttpAuth(c, one)
    \/ \E c \in Clients : HttpConnect(c, one)

NextOf(one) ==
    \/ Handlers(one)
    \/ \E c \in Clients : Timeout(c, one)

Next == NextOf(FALSE)

\* the clock advances by one unit; a timer that is due fires first, and a
\* loop that can have its permit takes it first
TickTime ==
    /\ time.now < MaxTime
    /\ \A l \in Listeners : ~(lpc[l] = "acquire" /\ permits > 0 /\ granted(waiters, l))
    /\ \A c \in Clients : timeout_covers(conn[c].pc) => time.now < time.deadline[c]
    /\ time' = [time EXCEPT !.now = @ + 1]
    /\ UNCHANGED <<auth_enabled, authenticator, permits, lpc, pending, waiters, pool, conn, last_done, last_frame,
                   boot, user_config, ldap, codec, uri_parse>>

\* the deadline of the task of c is reached
Expire(c) ==
    /\ time.now >= time.deadline[c]
    /\ Timeout(c, FALSE)

\* the server with the clock running and the deadlines kept to the instant
NextTimed ==
    \/ Handlers(FALSE)
    \/ \E c \in Clients : Expire(c)
    \/ TickTime

SpecTimed == InitTwo /\ [][NextTimed]_vars

\* a single connection, with the bytes of the relay followed one by one
NextOne ==
    \/ NextOf(TRUE)
    \/ \E c \in Clients, d \in Directions : RelayRead(c, d)
    \/ \E c \in Clients, d \in Directions : RelayWrite(c, d)

\* ------------------------------------------------------------ main, start
ServerIdle ==
    /\ auth_enabled = FALSE
    /\ authenticator = FALSE
    /\ permits = max_connections
    /\ lpc = [l \in Listeners |-> "accept"]
    /\ pending = [l \in Listeners |-> 0]
    /\ waiters = <<>>
    /\ pool = Clients
    /\ conn = [c \in Clients |-> Idle]
    /\ last_done = Idle
    /\ last_frame = <<>>

\* the process is started with some file at config_path and some options
InitMain ==
    /\ ServerIdle
    /\ \E file \in Files, args \in Args :
          boot = [phase |-> "start", file |-> file, args |-> args,
                  config |-> DefaultConfig, listeners |-> {}, exit_code |-> 0]
    /\ user_config = EmptyStore("Argon2")
    /\ ldap = NoLdap
    /\ codec = NoCodec
    /\ uri_parse = NoUriParse
    /\ time = NoTime

ServerUnchanged ==
    UNCHANGED <<auth_enabled, authenticator, permits, lpc, pending, waiters, pool, conn, last_done, last_frame,
                user_config, ldap, codec, uri_parse, time>>

\* main: the config file is read, or the defaults taken
MainLoad ==
    /\ boot.phase = "start"
    /\ boot' = [boot EXCEPT !.phase = "loaded", !.config = load_or_default(boot.file)]
    /\ ServerUnchanged

\* main: the overrides are applied
MainOverride ==
    /\ boot.phase = "loaded"
    /\ boot' = [boot EXCEPT !.phase = "configured",
                            !.config = apply_overrides(boot.config, boot.args)]
    /\ ServerUnchanged

\* main and ProxyServer::start up to the accept loops: the two addresses
\* are parsed and bound; any error ends the process with status 1
MainStart ==
    /\ boot.phase = "configured"
    /\ \E bind1 \in {"Ok", "Err"}, bind2 \in {"Ok", "Err"} :
          /\ (boot.config.socks5_port = boot.config.http_port
              /\ boot.config.http_port # 0) => bind2 = "Err"
          /\ boot' = IF /\ boot.config.bind_address \in IpAddrs
                        /\ bind1 = "Ok"
                        /\ bind2 = "Ok"
                     THEN [boot EXCEPT !.phase = "serving", !.listeners = Listeners]
                     ELSE [boot EXCEPT !.phase = "exited", !.exit_code = 1]
    /\ ServerUnchanged

NextMain == MainLoad \/ MainOverride \/ MainStart

\* the daemon from its start to the moment it serves or has exited
SpecMain == InitMain /\ [][NextMain]_vars

\* ------------------------------------------------------- the user commands
InitStore ==
    /\ ServerIdle
    /\ boot = Serving
    /\ ldap = NoLdap
    /\ codec = NoCodec
    /\ uri_parse = NoUriParse
    /\ time = NoTime
    /\ \E ht \in HashTypes : user_config \in {EmptyStore(ht), LoadedStore(ht)}

StoreUnchanged ==
    UNCHANGED <<auth_enabled, authenticator, permits, lpc, pending, waiters, pool, conn, last_done, last_frame,
                boot, ldap, codec, uri_parse, time>>

\* time passes between two commands
Tick ==
    /\ user_config.clock < MaxClock
    /\ user_config' = [user_config EXCEPT !.clock = @ + 1]
    /\ StoreUnchanged

AddUser(username, password) ==
    /\ \E salt \in Salts :
          user_config' = add_user(user_config, username, password, salt, user_config.clock)
    /\ StoreUnchanged

RemoveUser(username) ==
    /\ user_config' = remove_user(user_config, username)
    /\ StoreUnchanged

UpdatePassword(username, password) ==
    /\ \E salt \in Salts :
          user_config' = update_password(user_config, username, password, salt,
                                         user_config.clock)
    /\ StoreUnchanged

EnableUser(username, enabled) ==
    /\ user_config' = enable_user(user_config, username, enabled, user_config.clock)
    /\ StoreUnchanged

NextStore ==
    \/ Tick
    \/ \E u \in Names, p \in Passwords : AddUser(u, p)
    \/ \E u \in Names : RemoveUser(u)
    \/ \E u \in Names, p \in Passwords : UpdatePassword(u, p)
    \/ \E u \in Names, e \in BOOLEAN : EnableUser(u, e)

\* the user store under any sequence of user commands
SpecStore == InitStore /\ [][NextStore]_vars

\* --------------------------------------------- LdapAuthenticator::authenticate
InitLdap ==
    /\ ServerIdle
    /\ boot = Serving
    /\ user_config = EmptyStore("Argon2")
    /\ codec = NoCodec
    /\ uri_parse = NoUriParse
    /\ time = NoTime
    /\ \E u \in Usernames, f \in UserFilters :
          ldap = [NoLdap EXCEPT !.pc = "connect", !.username = u, !.user_filter = f]

LdapUnchanged ==
    UNCHANGED <<auth_enabled, authenticator, permits, lpc, pending, waiters, pool, conn, last_done, last_frame,
                boot, user_config, codec, uri_parse, time>>

LdapReturn(l, event, result) ==
    [l EXCEPT !.pc = "done", !.hist = @ \o <<event>>, !.result = result]

\* LdapConnAsync::new
LdapConnect ==
    /\ ldap.pc = "connect"
    /\ \E r \in {"Ok", "Err"} :
          ldap' = IF r = "Err" THEN LdapReturn(ldap, "connect_err", "Err")
                  ELSE [ldap EXCEPT !.pc = "bind", !.hist = @ \o <<"connect">>]
    /\ LdapUnchanged

\* step 1: the initial bind, with bind_dn or anonymous
LdapBind ==
    /\ ldap.pc = "bind"
    /\ \E r \in LdapResults :
          ldap' = IF r = "Success"
                  THEN [ldap EXCEPT !.pc = "search", !.hist = @ \o <<"bind">>]
                  ELSE LdapReturn(ldap, "bind_err", "Err")
    /\ LdapUnchanged

\* step 2: the search for the user's DN with the substituted filter
LdapSearch ==
    /\ ldap.pc = "search"
    /\ \E r \in LdapResults, rs \in EntryCounts :
          LET l == [ldap EXCEPT !.filter = search_filter(ldap.user_filter, ldap.username)] IN
          ldap' = IF r # "Success" THEN LdapReturn(l, "search_err", "Err")
                  ELSE IF rs = 0 THEN LdapReturn(l, "search_none", "OkFalse")
                  ELSE IF rs > 1 THEN LdapReturn(l, "search_many", "OkFalse")
                  ELSE [l EXCEPT !.pc = "verify", !.hist = @ \o <<"search">>]
    /\ LdapUnchanged

\* the match on verify_result, with the Err arm returning the error
verify_outcome_propagates(r) ==
    IF r = "Success" THEN "OkTrue" ELSE IF r = "Failure" THEN "OkFalse" ELSE "Err"

\* the match on verify_result: Ok(res) gives Ok(res.success().is_ok()),
\* Err(e) gives Ok(false)
verify_outcome(r) ==
    IF r = "Success" THEN "OkTrue" ELSE "OkFalse"

\* step 3: the bind as the user found, with the password given
LdapVerify ==
    /\ ldap.pc = "verify"
    /\ \E r \in LdapResults :
          ldap' = LdapReturn(ldap, IF r = "Success" THEN "verify"
                                  ELSE IF r = "Failure" THEN "verify_fail"
                                  ELSE "verify_err",
                            verify_outcome(r))
    /\ LdapUnchanged

NextLdap == LdapConnect \/ LdapBind \/ LdapSearch \/ LdapVerify

\* one call of authenticate against any directory
SpecLdap == InitLdap /\ [][NextLdap]_vars

\* ----------------------------------------------- send_response on any response
InitCodec ==
    /\ ServerIdle
    /\ boot = Serving
    /\ user_config = EmptyStore("Argon2")
    /\ ldap = NoLdap
    /\ uri_parse = NoUriParse
    /\ time = NoTime
    /\ \E r \in Responses : codec = [pc |-> "made", response |-> r, bytes |-> <<>>]

CodecUnchanged ==
    UNCHANGED <<auth_enabled, authenticator, permits, lpc, pending, waiters, pool, conn, last_done, last_frame,
                boot, user_config, ldap, uri_parse, time>>

SendResponse ==
    /\ codec.pc = "made"
    /\ codec' = [codec EXCEPT !.pc = "sent", !.bytes = send_response(codec.response)]
    /\ CodecUnchanged

NextCodec == SendResponse

SpecCodec == InitCodec /\ [][NextCodec]_vars

\* ------------------------------------------- get_host_port on any request
InitUri ==
    /\ ServerIdle
    /\ boot = Serving
    /\ user_config = EmptyStore("Argon2")
    /\ ldap = NoLdap
    /\ codec = NoCodec
    /\ time = NoTime
    /\ \E m \in UriMethods, u \in Uris :
          uri_parse = [pc |-> "parsed", method |-> m, uri |-> u, result |-> HostPortErr]

UriUnchanged ==
    UNCHANGED <<auth_enabled, authenticator, permits, lpc, pending, waiters, pool, conn, last_done, last_frame,
                boot, user_config, ldap, codec, time>>

GetHostPort ==
    /\ uri_parse.pc = "parsed"
    /\ uri_parse' = [uri_parse EXCEPT !.pc = "done",
                                      !.result = get_host_port([method |-> uri_parse.method,
                                                                uri |-> uri_parse.uri])]
    /\ UriUnchanged

NextUri == GetHostPort

SpecUri == InitUri /\ [][NextUri]_vars

\* the server with clients coming and going
Spec == Init /\ [][Next]_vars

\* one connection, with the frame of each read recorded
SpecOne == InitOne /\ [][NextOne]_vars

TypeOK ==
    /\ permits \in 0..max_connections
    /\ \A c \in Clients : conn[c].pc \in RunningPcs \cup {"idle", "waiting"}
    /\ \A c \in Clients : conn[c].hreq \in HttpRequests

\* the deadline of every connection task does expire
FairSpec == InitTwo /\ [][Next]_vars /\ \A c \in Clients : WF_vars(Timeout(c, FALSE))

\* the deadlines expire and a loop that can have a permit is scheduled
FairAdmitSpec ==
    /\ InitTwo /\ [][Next]_vars
    /\ \A c \in Clients : WF_vars(Timeout(c, FALSE))
    /\ \A l \in Listeners : WF_vars(Spawn(l))

\* ------------------------------------------------------------ properties
Running == { c \in Clients : conn[c].pc \in RunningPcs }
Holders == { c \in Clients : conn[c].permit }

\* C1: the handler tasks that are running, over both listeners together,
\* are never more than max_connections
C1_AdmissionCap ==
    /\ Cardinality(Running) <= max_connections
    /\ Cardinality(Holders) <= max_connections

\* the cap is reached: no permit is left, and a client accepted by the other
\* listener waits for one
C1_Witness ==
    /\ Cardinality(Running) = max_connections
    /\ permits = 0
    /\ \E c \in Running, l \in Listeners :
          /\ lpc[l] = "acquire"
          /\ conn[pending[l]].pc = "waiting"
          /\ conn[pending[l]].listener # conn[c].listener

\* C2: a permit taken by an accept loop is held by exactly the task spawned
\* with it and is given back when that task ends, by success, by error or by
\* the deadline: the available permits and the running tasks always add up
\* to max_connections, so with no task left all permits are available
C2_PermitConservation ==
    /\ permits + Cardinality(Holders) = max_connections
    /\ \A c \in Clients : conn[c].permit <=> conn[c].pc \in RunningPcs
    /\ ~last_done.permit
    /\ (Running = {} => permits = max_connections)

\* a task ended by the deadline, every permit is back
C2_Witness ==
    /\ last_done.result = "timed_out"
    /\ Running = {}
    /\ permits = max_connections

\* C3: every connection task ends, also when nothing more arrives from the
\* client or the target; a task ended by the deadline has closed the client
\* socket and the outbound socket and has given back its permit
C3_DeadlineEndsTask ==
    /\ \A c \in Clients : conn[c].permit ~> ~conn[c].permit
    /\ [](last_done.result = "timed_out" =>
            /\ last_done.client = "closed"
            /\ last_done.target # "open"
            /\ ~last_done.permit)

\* a task was cut off by the deadline during relay, its two sockets closed
C3_Witness ==
    /\ last_done.result = "timed_out"
    /\ last_done.target = "closed"
    /\ last_done.client = "closed"

Cur == IF conn[1].pc # "idle" THEN conn[1] ELSE last_done

Last(h) == h[Len(h)]
Has(h, e) == \E i \in 1..Len(h) : h[i] = e

\* a greeting of version 5 with a non-empty, complete method list
IsGreeting(f) == Len(f) >= 2 /\ f[1] = 5 /\ f[2] >= 1 /\ Len(f) >= 2 + f[2]
Offered(f) == { f[2 + i] : i \in 1..f[2] }
ExpectedMethod(f) ==
    IF auth_enabled THEN (IF 2 \in Offered(f) THEN 2 ELSE 255)
    ELSE (IF 0 \in Offered(f) THEN 0 ELSE 255)

\* C5: for a greeting of version 5 with methods, the selection reply is
\* [5, m], m being 2 if auth is enabled and 2 is offered, 0 if auth is
\* disabled and 0 is offered, and 255 otherwise; after 255 the connection is
\* closed and no request is read
C5_MethodSelection ==
    /\ (Cur.hist = <<"greeting">> /\ IsGreeting(last_frame))
        => /\ Cur.out = <<5, ExpectedMethod(last_frame)>>
           /\ ExpectedMethod(last_frame) = 255
                => Cur.pc = "ended" /\ Cur.result = "failed" /\ Cur.client = "closed"
    /\ (Len(Cur.out) >= 2 /\ Cur.out[2] = 255)
        => Cur.pc = "ended" /\ Cur.hist = <<"greeting">>

\* auth disabled, the client offers only UserPass: 05 FF and closed
C5_Witness ==
    /\ ~auth_enabled
    /\ last_frame = <<5, 1, 2>>
    /\ last_done.out = <<5, 255>>
    /\ last_done.pc = "ended"

\* a complete sub-negotiation frame of version 1
IsSubAuth(f) ==
    /\ Len(f) >= 2 /\ f[1] = 1
    /\ Len(f) >= 3 + f[2]
    /\ Len(f) >= 3 + f[2] + f[3 + f[2]]

\* C6: with auth enabled, when the sub-negotiation frame is well-formed and
\* the credentials are accepted, the reply is [1, 0] and the handler goes on
\* to read the request
C6_AcceptedProceeds ==
    [][(/\ auth_enabled
        /\ conn[1].pc = "subauth"
        /\ last_frame' # last_frame
        /\ IsSubAuth(last_frame')
        /\ (conn'[1].authres = "OkTrue" \/ last_done'.authres = "OkTrue"))
       => /\ conn'[1].pc = "request"
          /\ conn'[1].out = <<5, 2, 1, 0>>]_vars

\* accepted credentials, the handler waits for the request
C6_Witness ==
    /\ conn[1].pc = "request"
    /\ conn[1].authres = "OkTrue"
    /\ conn[1].out = <<5, 2, 1, 0>>
    /\ IsSubAuth(last_frame)

\* C7: a SOCKS5 connection whose credentials were not accepted got exactly
\* [1, 1] after the selection reply and is closed; no request was read, no
\* name resolved, no outbound connection opened
C7_DeniedIsClosed ==
    (Cur.listener = "socks5" /\ Cur.authres \in {"OkFalse", "Err"})
    => /\ Cur.out = <<5, 2, 1, 1>>
       /\ Cur.pc = "ended"
       /\ Cur.result = "failed"
       /\ Cur.client = "closed"
       /\ Cur.target = "none"
       /\ Cur.hist = <<"greeting", "subauth">>

\* the credential check ended in an error: denied and closed
C7_Witness ==
    /\ last_done.listener = "socks5"
    /\ last_done.authres = "Err"
    /\ last_done.out = <<5, 2, 1, 1>>

\* a complete request frame of version 5 with a known address type (and a
\* domain name that is UTF-8)
IsRequest(f) ==
    /\ Len(f) >= 5 /\ f[1] = 5
    /\ \/ f[4] = 1 /\ Len(f) = 10
       \/ f[4] = 4 /\ Len(f) = 22
       \/ f[4] = 3 /\ Len(f) = 7 + f[5] /\ IsValidUtf8(SubSeq(f, 6, 5 + f[5]))

\* what was written to the client after the negotiation
Response(r) == Drop(r.out, IF auth_enabled THEN 4 ELSE 2)

ErrorResponse(code) == <<5, code, 0, 1, 0, 0, 0, 0, 0, 0>>

\* C8: a BIND or UDP ASSOCIATE request is answered with reply 7, opens no
\* outbound connection, starts no relay, and the connection is closed
C8_BindUdpRejected ==
    (/\ Cur.listener = "socks5"
     /\ Cur.hist # <<>>
     /\ Last(Cur.hist) = "request"
     /\ IsRequest(last_frame)
     /\ last_frame[2] \in {2, 3})
    => /\ Response(Cur) = ErrorResponse(7)
       /\ Cur.pc = "ended"
       /\ Cur.result = "failed"
       /\ Cur.client = "closed"
       /\ Cur.target = "none"

\* the BIND request 05 02 00 01 7F 00 00 01 00 50
C8_Witness ==
    /\ last_frame = <<5, 2, 0, 1, 127, 0, 0, 1, 0, 80>>
    /\ Response(last_done) = ErrorResponse(7)
    /\ last_done.pc = "ended"

ResolutionFailed(h) == Has(h, "lookup_error") \/ Has(h, "lookup_empty")
ResolutionDone(h) == Has(h, "lookup_found") \/ Has(h, "literal")
ConnectTried(h) == Has(h, "connect_ok") \/ Has(h, "connect_err")

\* the success response with the local address of the outbound socket
SuccessResponses ==
    { <<5, 0, 0, 1, 127, 0, 0, 1, 156, 64>>,
      <<5, 0, 0, 4, 0, 0, 0, 0, 0, 0, 0, 0, 0, 0, 0, 0, 0, 0, 0, 1, 156, 64>> }

\* C9: CONNECT: a failed resolution gives reply 4 and no connect; a failed
\* connect gives reply 5; reply 0 with the local address only after both
\* succeeded; relay only after the success response; no relay after a failure
C9_ConnectReplies ==
    Cur.listener = "socks5" =>
    /\ ResolutionFailed(Cur.hist)
         => /\ Response(Cur) = ErrorResponse(4)
            /\ ~ConnectTried(Cur.hist)
            /\ Cur.target = "none"
            /\ Cur.pc = "ended" /\ Cur.result = "failed"
            /\ ~Has(Cur.hist, "relay")
    /\ Has(Cur.hist, "connect_err")
         => /\ Response(Cur) = ErrorResponse(5)
            /\ Cur.target = "none"
            /\ Cur.pc = "ended" /\ Cur.result = "failed"
            /\ ~Has(Cur.hist, "relay")
    /\ (Len(Response(Cur)) >= 2 /\ Response(Cur)[2] = 0)
         => /\ ResolutionDone(Cur.hist)
            /\ Has(Cur.hist, "connect_ok")
            /\ Response(Cur) \in SuccessResponses
    /\ (Cur.pc = "relay" \/ Has(Cur.hist, "relay"))
         => Response(Cur) \in SuccessResponses
    /\ ConnectTried(Cur.hist) => ResolutionDone(Cur.hist)

\* the name did not resolve: reply 4, closed, nothing connected
C9_Witness ==
    /\ Has(last_done.hist, "lookup_empty")
    /\ Response(last_done) = ErrorResponse(4)
    /\ last_done.target = "none"

Http407 ==
    "HTTP/1.1 407 Proxy Authentication Required\r\nProxy-Authenticate: Basic realm=\"Proxy\"\r\nContent-Length: 70\r\nConnection: close\r\n\r\nProxy Authentication Required\r\nProxy-Authenticate: Basic realm=\"Proxy\""

Denied(r) == r.authres \in {"OkFalse", "Err"}

\* C10: a connection denied because the backend answered Ok(false) and one
\* denied because the backend failed receive the same bytes: [1, 1] after the
\* selection reply on the SOCKS5 listener, the same 407 response on the HTTP
\* listener
C10_SameDenial ==
    /\ [](Denied(last_done) =>
            IF last_done.listener = "socks5"
            THEN last_done.out = <<5, 2, 1, 1>> /\ last_done.hout = ""
            ELSE last_done.hout = Http407 /\ last_done.out = <<>>)
    /\ [][(/\ Denied(last_done) /\ Denied(last_done')
           /\ last_done.authres # last_done'.authres
           /\ last_done.listener = last_done'.listener)
          => /\ last_done'.out = last_done.out
             /\ last_done'.hout = last_done.hout]_vars

\* an HTTP request denied because the backend failed
C10_Witness ==
    /\ last_done.listener = "http"
    /\ last_done.authres = "Err"
    /\ last_done.hout = Http407


\* ------------------------------------------------ properties of HTTP
\* a Proxy-Authorization header that is missing, not Basic, not base64, or
\* without ':' once decoded
BadAuthHeader(h) ==
    \/ "proxy-authorization" \notin DOMAIN h
    \/ h["proxy-authorization"] \in {"Bearer x", "Basic !!!", "Basic dXA="}

Http407Head ==
    "HTTP/1.1 407 Proxy Authentication Required\r\n"
    \o "Proxy-Authenticate: Basic realm=\"Proxy\"\r\n"
    \o "Content-Length: 70\r\n"
    \o "Connection: close\r\n"
    \o "\r\n"

Http407Body == "Proxy Authentication Required\r\nProxy-Authenticate: Basic realm=\"Proxy\""

\* C11: with auth enabled, an HTTP request whose Proxy-Authorization header
\* is missing, not Basic, not base64 or without ':', or whose credentials
\* are not accepted, gets the 407 response with Proxy-Authenticate and
\* Connection: close, and is closed with no outbound connection opened
C11_Http407 ==
    (/\ Cur.listener = "http"
     /\ auth_enabled
     /\ Has(Cur.hist, "h_auth")
     /\ (BadAuthHeader(Cur.parsed.headers) \/ Cur.authres \in {"OkFalse", "Err"}))
    => /\ Cur.hout = Http407Head \o Http407Body
       /\ Cur.pc = "ended"
       /\ Cur.client = "closed"
       /\ Cur.target = "none"
       /\ ~Cur.tout.written
       /\ ~Has(Cur.hist, "connect_ok")

\* GET http://h.io/ with no Proxy-Authorization header: 407 and closed
C11_Witness ==
    /\ auth_enabled
    /\ last_done.parsed.method = "GET"
    /\ last_done.parsed.uri = "http://h.io/"
    /\ last_done.parsed.headers = EmptyMap
    /\ last_done.hout = Http407Head \o Http407Body
    /\ last_done.target = "none"

IsConnectRequest(r) == r.parsed.method \in {"CONNECT", "connect"}

\* C12: for a CONNECT whose outbound connection succeeds, what the server
\* writes to the client is exactly "HTTP/1.1 200 Connection Established"
\* and the empty line, once, after the outbound connection is up and before
\* any byte of the target is relayed to the client
C12_ConnectEstablished ==
    Cur.listener = "http" =>
    /\ (IsConnectRequest(Cur) /\ Has(Cur.hist, "connect_ok"))
         => /\ Cur.hout = "HTTP/1.1 200 Connection Established\r\n\r\n"
            /\ Cur.target # "none"
    /\ (IsConnectRequest(Cur) /\ Cur.down.deliv # <<>>)
         => Cur.hout = "HTTP/1.1 200 Connection Established\r\n\r\n"
    /\ (Cur.hout # "" /\ Cur.hout # Http407Head \o Http407Body)
         => /\ Cur.hout = "HTTP/1.1 200 Connection Established\r\n\r\n"
            /\ IsConnectRequest(Cur)
            /\ Has(Cur.hist, "connect_ok")

\* a tunnel is up and the byte of the target has reached the client
C12_Witness ==
    /\ conn[1].pc = "relay"
    /\ IsConnectRequest(conn[1])
    /\ conn[1].hout = "HTTP/1.1 200 Connection Established\r\n\r\n"
    /\ conn[1].down.deliv = <<9>>

\* C13: an HTTP request that passed authentication and whose target cannot
\* be resolved or connected to gets an error response (of the 502 class)
\* written to the client before the connection is closed
C13_BadGatewayWritten ==
    (/\ Cur.listener = "http"
     /\ Cur.pc = "ended"
     /\ (Has(Cur.hist, "resolve_err") \/ Has(Cur.hist, "connect_err")))
    => /\ Cur.hout # ""
       /\ Cur.hout # "HTTP/1.1 200 Connection Established\r\n\r\n"
       /\ Cur.hout # Http407Head \o Http407Body

ProxyHeaderNames ==
    {"Proxy-Authorization", "PROXY-AUTHORIZATION", "proxy-authorization",
     "Proxy-Connection", "proxy-connection"}

CredentialValues == {"Basic dTpw", "Basic dXA=", "Basic !!!", "Bearer x"}

\* C14: the header block written to the target holds every header of the
\* parsed request except proxy-connection and proxy-authorization, and never
\* one of those two in any letter case: the proxy credentials do not reach
\* the target
C14_HopByHopStripped ==
    Cur.tout.written =>
    /\ DOMAIN Cur.tout.headers =
          DOMAIN Cur.parsed.headers \ {"proxy-connection", "proxy-authorization"}
    /\ \A n \in DOMAIN Cur.tout.headers :
          /\ Cur.tout.headers[n] = Cur.parsed.headers[n]
          /\ n \notin ProxyHeaderNames
          /\ Cur.tout.headers[n] \notin CredentialValues
    /\ Cur.tout.line = <<Cur.parsed.method, Cur.parsed.uri, Cur.parsed.version>>

\* a request sent with PROXY-AUTHORIZATION and Host is forwarded with Host only
C14_Witness ==
    /\ Cur.tout.written
    /\ "proxy-authorization" \in DOMAIN Cur.parsed.headers
    /\ Cur.parsed.headers["proxy-authorization"] = "Basic dXA="
    /\ DOMAIN Cur.tout.headers = {"host"}

\* -------------------------------------------- properties of the relay
IsPrefix(a, b) == Len(a) <= Len(b) /\ \A i \in 1..Len(a) : a[i] = b[i]

\* C15: in each direction of a relay the bytes delivered to the receiver are
\* a prefix of the bytes read from the sender, and once the relay has ended
\* with both senders at EOF and no error the two sequences are equal
C15_RelayPreservesBytes ==
    \A d \in Directions :
        /\ IsPrefix(FlowOf(Cur, d).deliv, FlowOf(Cur, d).read)
        /\ Has(Cur.hist, "copy_Ok")
             => /\ FlowOf(Cur, d).deliv = FlowOf(Cur, d).read
                /\ FlowOf(Cur, d).src = <<>>

\* a SOCKS5 relay ended by EOF on both sides with all bytes delivered
C15_Witness ==
    /\ Has(last_done.hist, "copy_Ok")
    /\ last_done.listener = "socks5"
    /\ last_done.up.read = <<7, 8>>
    /\ last_done.up.deliv = <<7, 8>>
    /\ last_done.down.deliv = <<9>>

\* C16: on the HTTP listener every byte the client sends after the blank
\* line of its request is delivered to the target, in order, also when it
\* was read into the handler's buffer together with the headers
C16_BytesAfterHeadersDelivered ==
    (Cur.listener = "http" /\ Has(Cur.hist, "connect_ok"))
    => /\ IsPrefix(Cur.up.deliv, Cur.after)
       /\ Has(Cur.hist, "copy_Ok") => Cur.up.deliv = Cur.after

\* C17: a relay ended by an I/O error is reported as success, like one ended
\* by EOF on both sides: the outcome of the connection is "completed", never
\* "failed", on either listener
C17_RelayErrorIsSuccess ==
    (Has(Cur.hist, "copy_Err") \/ Has(Cur.hist, "copy_Ok"))
    => /\ Cur.pc = "ended"
       /\ Cur.result = "completed"

\* a relay with bytes still undelivered was cut by an error: completed
C17_Witness ==
    /\ Has(last_done.hist, "copy_Err")
    /\ last_done.up.src # <<>>
    /\ last_done.result = "completed"

\* C18: when the bytes read for the request line and headers exceed
\* max_request_size the client receives an error response, no outbound
\* connection is opened, the connection is closed, and no more than
\* max_request_size bytes were consumed from the client
C18_OversizeRejected ==
    (Cur.listener = "http" /\ Has(Cur.hist, "too_large"))
    => /\ Cur.hout # ""
       /\ Cur.target = "none"
       /\ Cur.pc = "ended"
       /\ Cur.consumed <= max_request_size


\* ------------------------------------------------------------------- C19
BadConfigFile(file) ==
    file.kind # "absent" /\ ~load_from_file(file).ok

\* C19: when the configuration file exists but cannot be parsed or fails
\* validation, the start-up is fatal: no listener is ever bound and the
\* process ends with a non-zero status.
C19_BadConfigIsFatal ==
    BadConfigFile(boot.file) =>
        /\ boot.listeners = {}
        /\ boot.phase = "exited" => boot.exit_code # 0
        /\ boot.phase # "serving"

\* ------------------------------------------------------------------- C20
\* C20: in every store the user commands can produce, verify_password is
\* false for a user that is missing, false for a user that is disabled
\* whatever the password, and otherwise true exactly when the password
\* is the one the stored hash was made from.
C20_VerifyPassword ==
    \A u \in Names, p \in Passwords :
        LET users == user_config.users
            v == verify_password(user_config, u, p) IN
        /\ u \notin DOMAIN users => ~v
        /\ (u \in DOMAIN users /\ ~users[u].enabled) => ~v
        /\ (u \in DOMAIN users /\ users[u].enabled) =>
               (v <=> /\ users[u].password_hash.alg = user_config.hash_type
                      /\ users[u].password_hash.pw = p)
        /\ simple_authenticate(user_config, u, p) = IF v THEN "OkTrue" ELSE "OkFalse"

\* a disabled user is refused with the password the entry was made from
C20_Witness ==
    /\ user_config.last_op = "enable_user"
    /\ user_config.last_ok
    /\ \E u \in DOMAIN user_config.users :
          /\ ~user_config.users[u].enabled
          /\ user_config.users[u].password_hash.alg = user_config.hash_type
          /\ ~verify_password(user_config, u, user_config.users[u].password_hash.pw)


\* ------------------------------------------------------------------- C21
\* C21: every store the user commands produce can be saved and loaded
\* again: the load succeeds and gives the same hash_type, the same
\* usernames, and for each user the same password_hash, salt, created_at,
\* last_modified and enabled.
C21_SaveLoadRoundTrip ==
    LET r == user_load_from_file(save_to_file(user_config)) IN
    /\ r.ok
    /\ r.hash_type = user_config.hash_type
    /\ r.users = user_config.users


\* ------------------------------------------------------------------- C22
RECURSIVE Count(_, _)
Count(s, ch) ==
    IF s = <<>> THEN 0 ELSE (IF Head(s) = ch THEN 1 ELSE 0) + Count(Tail(s), ch)

\* RFC 4515 escapes of the five characters
EscapeCodes ==
    { <<"\\", "5", "c">>, <<"\\", "2", "a">>, <<"\\", "2", "8">>,
      <<"\\", "2", "9">>, <<"\\", "0", "0">> }

Unescaped(code) ==
    IF code = <<"\\", "5", "c">> THEN "\\"
    ELSE IF code = <<"\\", "2", "a">> THEN "*"
    ELSE IF code = <<"\\", "2", "8">> THEN "("
    ELSE IF code = <<"\\", "2", "9">> THEN ")"
    ELSE "NUL"

\* the value an escaped text stands for; "raw" marks a character that
\* should have been escaped and a backslash that starts no escape
RECURSIVE Unescape(_)
Unescape(s) ==
    IF s = <<>> THEN <<>>
    ELSE IF Head(s) = "\\"
    THEN IF Len(s) >= 3 /\ Take(s, 3) \in EscapeCodes
         THEN <<Unescaped(Take(s, 3))>> \o Unescape(Drop(s, 3))
         ELSE <<"raw">> \o Unescape(Tail(s))
    ELSE IF Head(s) \in {"*", "(", ")", "NUL"} THEN <<"raw">> \o Unescape(Tail(s))
    ELSE <<Head(s)>> \o Unescape(Tail(s))

\* every backslash of s starts one of the five escapes
RECURSIVE BackslashesEscape(_)
BackslashesEscape(s) ==
    IF s = <<>> THEN TRUE
    ELSE IF Head(s) = "\\"
    THEN Len(s) >= 3 /\ Take(s, 3) \in EscapeCodes /\ BackslashesEscape(Drop(s, 3))
    ELSE BackslashesEscape(Tail(s))

Searched(l) == \E i \in 1..Len(l.hist) : l.hist[i] \in {"search", "search_none", "search_many", "search_err"}

\* C22: the filter sent to the directory has the username's backslash,
\* '*', '(', ')' and NUL only as \5c, \2a, \28, \29, \00: it has as many
\* raw '*', '(', ')' and NUL as user_filter itself, each of its
\* backslashes starts such an escape, and the text put in place of {}
\* stands for the username; admin)(uid=* in (uid={}) gives
\* (uid=admin\29\28uid=\2a).
C22_LdapFilterEscaped ==
    Searched(ldap) =>
        /\ \A ch \in {"*", "(", ")", "NUL"} :
               Count(ldap.filter, ch) = Count(ldap.user_filter, ch)
        /\ BackslashesEscape(ldap.filter)
        /\ ldap.user_filter = UidFilter =>
               /\ Take(ldap.filter, 5) = Take(UidFilter, 5)
               /\ ldap.filter[Len(ldap.filter)] = ")"
               /\ Unescape(SubSeq(ldap.filter, 6, Len(ldap.filter) - 1)) = ldap.username
        /\ (ldap.user_filter = UidFilter /\ ldap.username = InjectionName) =>
               ldap.filter = <<"(", "u", "i", "d", "=", "a", "d", "m", "i", "n",
                               "\\", "2", "9", "\\", "2", "8", "u", "i", "d", "=",
                               "\\", "2", "a", ")">>

\* the injection attempt went through the search, which found nothing
C22_Witness ==
    /\ ldap.username = InjectionName
    /\ ldap.user_filter = UidFilter
    /\ ldap.hist = <<"connect", "bind", "search_none">>
    /\ ldap.result = "OkFalse"
    /\ Count(ldap.filter, "\\") = 3


\* ------------------------------------------------------------------- C23
\* the SOCKS5 framing of a response read back: ver, rep, rsv, atyp, then
\* 4 bytes, 16 bytes or a length byte and that many bytes, then the port
DecodeResponse(bytes) ==
    IF Len(bytes) < 4 THEN [ok |-> FALSE]
    ELSE LET atyp == bytes[4]
             rest == Drop(bytes, 4)
             n == IF atyp = 1 THEN 4
                  ELSE IF atyp = 4 THEN 16
                  ELSE IF Len(rest) >= 1 THEN rest[1] ELSE 0
             skip == IF atyp = 3 THEN 1 ELSE 0
         IN
         IF atyp \notin {1, 3, 4} \/ Len(rest) < skip + n + 2 THEN [ok |-> FALSE]
         ELSE [ok |-> TRUE,
               reply |-> bytes[2],
               address |-> Address(AddressTypeFrom(atyp), SubSeq(rest, skip + 1, skip + n)),
               port |-> U16FromBe(SubSeq(rest, skip + n + 1, skip + n + 2)),
               left |-> Len(rest) - (skip + n + 2)]

C25_Backpressure ==
    /\ [][\A l \in Listeners :
            (lpc[l] = "acquire" /\ permits = 0 /\ permits' = 0) =>
                /\ lpc'[l] = "acquire"
                /\ pending'[l] = pending[l]
                /\ conn'[pending[l]].pc = "waiting"
                /\ ~conn'[pending[l]].permit]_vars
    /\ \A l \in Listeners :
          (lpc[l] = "acquire") ~> (lpc[l] = "accept" /\ pending[l] = 0)

\* after an earlier task has ended, a loop holds a client and is first in
\* line for a permit while every permit is in use by the other listener
C25_Witness ==
    /\ permits = 0
    /\ last_done.result = "timed_out"
    /\ \E l \in Listeners :
          /\ waiters = <<l>>
          /\ lpc[l] = "acquire"
          /\ conn[pending[l]].pc = "waiting"
          /\ \A c \in Running : conn[c].listener # l


\* ------------------------------------------------------------------- C26
\* C26: a failed accept() does not end the accept loop, takes no permit
\* and spawns no task: the loop sleeps and then accepts again, and the
\* steps of failing and of waking up leave the permits, the waiters and
\* every connection as they were.
C26_AcceptFailureHarmless ==
    /\ [](\A l \in Listeners : lpc[l] \in {"accept", "acquire", "sleep"})
    /\ [][\A l \in Listeners :
            /\ (lpc[l] = "accept" /\ lpc'[l] # "accept") =>
                   \/ lpc'[l] = "acquire" /\ pending'[l] # 0
                   \/ /\ lpc'[l] = "sleep"
                      /\ permits' = permits
                      /\ conn' = conn
                      /\ pending' = pending
                      /\ waiters' = waiters
                      /\ pool' = pool
            /\ (lpc[l] = "sleep" /\ lpc'[l] # "sleep") =>
                   /\ lpc'[l] = "accept"
                   /\ permits' = permits
                   /\ conn' = conn
                   /\ pending' = pending
                   /\ waiters' = waiters
                   /\ pool' = pool]_vars

\* an accept has failed while a connection is being served
C26_Witness ==
    /\ lpc["socks5"] = "sleep"
    /\ permits = 0
    /\ \E c \in Running : conn[c].listener = "socks5"


\* ------------------------------------------------------------------- C27
\* the place of a handler position in the order AwaitGreeting,
\* AwaitSubAuth, AwaitRequest, (request being served), Relay
Rank(pc) ==
    IF pc = "greeting" THEN 1
    ELSE IF pc = "subauth" THEN 2
    ELSE IF pc = "request" THEN 3
    ELSE IF pc = "resolve" THEN 4
    ELSE IF pc = "connect" THEN 5
    ELSE IF pc = "respond" THEN 6
    ELSE 7

Socks5Live(cn) == cn.listener = "socks5" /\ cn.pc \in RunningPcs

\* C27: a SOCKS5 connection goes through greeting, optional
\* sub-negotiation, request, reply and relay in that order only, or is
\* closed: it never goes back and skips nothing; when the request is
\* awaited the client has been sent exactly the method selection, followed
\* by 01 00 if UserPass was selected, and when the relay runs a response
\* with reply 0 has been sent after that.
C27_Socks5StateOrder ==
    /\ [](Socks5Live(conn[1]) =>
            LET pc == conn[1].pc
                out == conn[1].out IN
            /\ pc = "greeting" => out = <<>>
            /\ pc = "subauth" => out = <<5, 2>>
            /\ pc \in {"request", "resolve", "connect", "respond"} =>
                   out \in { <<5, 0>>, <<5, 2, 1, 0>> }
            /\ pc = "relay" =>
                   \E hs \in { <<5, 0>>, <<5, 2, 1, 0>> } :
                       /\ Take(out, Len(hs)) = hs
                       /\ Len(out) >= Len(hs) + 10
                       /\ out[Len(hs) + 1] = 5
                       /\ out[Len(hs) + 2] = 0)
    /\ [][(Socks5Live(conn[1]) /\ conn'[1].pc # conn[1].pc) =>
            \/ conn'[1].pc = "idle"
            \/ /\ Socks5Live(conn'[1])
               /\ Rank(conn'[1].pc) > Rank(conn[1].pc)
               /\ \/ Rank(conn'[1].pc) = Rank(conn[1].pc) + 1
                  \/ conn[1].pc = "greeting" /\ conn'[1].pc = "request"]_vars

\* the relay was reached by way of the sub-negotiation
C27_Witness ==
    /\ conn[1].pc = "relay"
    /\ conn[1].listener = "socks5"
    /\ conn[1].hist = <<"greeting", "subauth", "request", "literal", "connect_ok", "respond">>


\* ------------------------------------------------------------------- C28
\* a request of version 5 cut short by EOF, for the three address types
RequestTruncated(f) ==
    \/ Len(f) < 4
    \/ /\ f[1] = 5
       /\ \/ f[4] = 1 /\ Len(f) < 10
          \/ f[4] = 4 /\ Len(f) < 22
          \/ f[4] = 3 /\ (Len(f) < 5 \/ Len(f) < 7 + f[5])

RequestBadUtf8(f) ==
    /\ Len(f) >= 5 /\ f[1] = 5 /\ f[4] = 3
    /\ Len(f) >= 5 + f[5]
    /\ ~IsValidUtf8(SubSeq(f, 6, 5 + f[5]))

ClosedWith(cn, out) ==
    /\ cn.pc = "ended"
    /\ cn.result = "failed"
    /\ cn.client = "closed"
    /\ cn.target = "none"
    /\ cn.out = out

\* C28: a malformed frame closes the connection with nothing written for
\* it: a greeting that is cut short, has a version other than 5 or offers
\* no method leaves zero bytes written; a sub-negotiation frame that is cut
\* short or has a version other than 1 gets no status reply and the
\* credentials are not checked; a request that is cut short, has a version
\* other than 5 or a domain name that is not UTF-8 gets no response.
C28_MalformedClosedSilently ==
    /\ (Cur.hist = <<"greeting">> /\ ~IsGreeting(last_frame))
          => ClosedWith(Cur, <<>>)
    /\ (Len(Cur.hist) >= 1 /\ Last(Cur.hist) = "subauth" /\ ~IsSubAuth(last_frame))
          => ClosedWith(Cur, <<5, 2>>) /\ Cur.authres = "none"
    /\ (Len(Cur.hist) >= 1 /\ Last(Cur.hist) = "request"
          /\ (RequestTruncated(last_frame) \/ RequestBadUtf8(last_frame)
              \/ last_frame[1] # 5))
          => \/ ClosedWith(Cur, <<5, 0>>)
             \/ ClosedWith(Cur, <<5, 2, 1, 0>>)

\* after an accepted sub-negotiation, a request whose domain name is not
\* UTF-8 was read and the connection closed
C28_Witness ==
    /\ Cur.hist = <<"greeting", "subauth", "request">>
    /\ RequestBadUtf8(last_frame)
    /\ ~RequestTruncated(last_frame)
    /\ ClosedWith(Cur, <<5, 2, 1, 0>>)


\* ------------------------------------------------------------------- C29
RelayEnded(cn) == Has(cn.hist, "copy_Ok") \/ Has(cn.hist, "copy_Err")

\* C29: the relay is over only when each direction has ended by itself:
\* a direction that has not failed has read its sender to EOF and has
\* delivered all it read, also when the other direction ended first, by
\* EOF or by an error.
C29_DirectionsEndIndependently ==
    RelayEnded(Cur) =>
        \A d \in Directions :
            \/ Has(Cur.hist, "err_" \o d)
            \/ flow_done(FlowOf(Cur, d))


\* ------------------------------------------------------------------- C30
\* C30: whatever a SOCKS5 connection is sent after the negotiation with a
\* reply code other than 0 is exactly 05 rep 00 01 00 00 00 00 00 00 with
\* rep one of 4, 5, 7, and it is the last thing sent.
C30_ErrorResponseShape ==
    (Cur.listener = "socks5" /\ Len(Response(Cur)) >= 2 /\ Response(Cur)[2] # 0) =>
        /\ \E code \in {4, 5, 7} :
               Response(Cur) = <<5, code, 0, 1, 0, 0, 0, 0, 0, 0>>
        /\ Len(Response(Cur)) = 10
        /\ Cur.pc = "ended"

\* a name that resolved to no address was answered with reply 4
C30_Witness ==
    /\ Cur.listener = "socks5"
    /\ Has(Cur.hist, "lookup_empty")
    /\ Cur.out = <<5, 0, 5, 4, 0, 1, 0, 0, 0, 0, 0, 0>>


\* ------------------------------------------------------------------- C31
LdapSteps == <<"connect", "bind", "search", "verify">>

LdapEndings ==
    <<{"connect", "connect_err"}, {"bind", "bind_err"},
      {"search", "search_err", "search_none", "search_many"},
      {"verify", "verify_fail", "verify_err"}>>

\* C31: authenticate goes through connect, initial bind, search and
\* verifying bind in that order; a failed connect or initial bind gives
\* Err; a search with no entry or with several gives Ok(false) and no
\* verifying bind is made; with one entry the result is Ok(true) exactly
\* when the bind as that entry succeeded, and an error of that bind
\* gives Ok(false), not Err.
C31_LdapOutcomes ==
    LET h == ldap.hist IN
    /\ Len(h) <= 4
    /\ \A i \in 1..Len(h) :
           /\ h[i] \in LdapEndings[i]
           /\ i < Len(h) => h[i] = LdapSteps[i]
    /\ ldap.pc = "done" =>
           /\ Len(h) >= 1
           /\ Last(h) \in {"connect_err", "bind_err"} => ldap.result = "Err"
           /\ Last(h) \in {"search_none", "search_many"} =>
                  ldap.result = "OkFalse" /\ Len(h) = 3
           /\ Len(h) = 4 =>
                  /\ ldap.result = "OkTrue" <=> Last(h) = "verify"
                  /\ ldap.result # "Err"
                  /\ Last(h) = "verify_err" => ldap.result = "OkFalse"

\* the verifying bind failed on the network after one entry was found
C31_Witness ==
    /\ ldap.pc = "done"
    /\ ldap.hist = <<"connect", "bind", "search", "verify_err">>
    /\ ldap.result = "OkFalse"


\* ------------------------------------------------------------------- C32
\* the place of the first ch in s, Len(s) + 1 when there is none
Idx(s, ch) ==
    IF \E i \in 1..Len(s) : s[i] = ch
    THEN CHOOSE i \in 1..Len(s) : s[i] = ch /\ \A j \in 1..(i - 1) : s[j] # ch
    ELSE Len(s) + 1

Before(s, ch) == SubSeq(s, 1, Idx(s, ch) - 1)
After(s, ch) == SubSeq(s, Idx(s, ch) + 1, Len(s))

RECURSIVE Decimal(_)
Decimal(s) ==
    IF s = <<>> THEN 0
    ELSE Decimal(SubSeq(s, 1, Len(s) - 1)) * 10 + digit(s[Len(s)])

Unsigned(s) == IF s # <<>> /\ s[1] = "+" THEN Tail(s) ELSE s

\* the text is the numeral of a 16-bit unsigned integer
IsU16(s) ==
    /\ Unsigned(s) # <<>>
    /\ \A i \in 1..Len(Unsigned(s)) : is_digit(Unsigned(s)[i])
    /\ Decimal(Unsigned(s)) <= 65535

C33_ServingConfigValidated ==
    boot.phase = "serving" =>
        /\ boot.config.socks5_port # 0
        /\ boot.config.http_port # 0
        /\ boot.config.socks5_port # boot.config.http_port
        /\ boot.config.bind_address \in IpAddrs
        /\ boot.config.level \in LogLevels
        /\ (boot.file.kind = "config" /\ load_from_file(boot.file).ok) =>
               boot.config = boot.file.config


\* ------------------------------------------------------------------- C34
\* C34: a connection is closed no later than connection_timeout after it
\* was accepted, the time it waited for a permit included: no connection
\* that was accepted and has not ended is older than connection_timeout.
C34_DeadlineFromAccept ==
    \A c \in Clients :
        conn[c].pc # "idle" => time.now <= time.accepted[c] + connection_timeout


\* ------------------------------------------------------------------- C35
\* the request frame of the connection was read
RequestRead(cn) == cn.listener = "socks5" /\ Has(cn.hist, "request")

\* no name was resolved, nothing was connected to, no success was replied
NothingOpened(cn) ==
    /\ ~ResolutionDone(cn.hist) /\ ~ResolutionFailed(cn.hist)
    /\ ~ConnectTried(cn.hist)
    /\ cn.target = "none"
    /\ Response(cn) \notin SuccessResponses

\* C35: a request whose command byte is not 0x01, values outside 1, 2, 3
\* included, leads to no name resolution, no outbound connection and no
\* success reply.
C35_OnlyConnectOpens ==
    (RequestRead(Cur) /\ Len(last_frame) >= 2 /\ last_frame[2] # 1) => NothingOpened(Cur)

\* ------------------------------------------------------------------- C36
\* C36: a request whose address-type byte is not 0x01, 0x03 or 0x04 is
\* rejected: no address is made of the bytes after it, and it leads to no
\* name resolution and no outbound connection.
C36_UnknownAddressTypeRejected ==
    (RequestRead(Cur) /\ Len(last_frame) >= 4 /\ last_frame[4] \notin {1, 3, 4})
    => /\ Cur.req.address.type = "none"
       /\ NothingOpened(Cur)

\* ------------------------------------------------------------------- C37
\* an outbound connection was tried or made, or bytes went to the target
Outbound(cn) ==
    \/ cn.target # "none"
    \/ ConnectTried(cn.hist)
    \/ ResolutionDone(cn.hist) \/ ResolutionFailed(cn.hist)
    \/ cn.pc \in {"resolve", "connect", "respond", "relay", "h_connect"}
    \/ cn.tout.written
    \/ cn.up.read # <<>> \/ cn.up.deliv # <<>>

C38_StoreStaysValid ==
    user_config_validate(user_config.users)

\* ------------------------------------------------------------------- C39
\* C39: add_user for a name that exists and remove_user, update_password
\* and enable_user for a name that does not exist fail and leave every
\* entry as it was; update_password and enable_user for a name that
\* exists succeed, change that user's entry only, set its last_modified
\* to the time of the call and keep its created_at.
C39_FailingOpsChangeNothing ==
    [][user_config'.clock = user_config.clock =>
         LET op == user_config'.last_op
             n == user_config'.last_user
             u == user_config.users
             v == user_config'.users
         IN /\ (op = "add_user" /\ n \in DOMAIN u) =>
                   (~user_config'.last_ok /\ v = u)
            /\ (op \in {"remove_user", "update_password", "enable_user"} /\ n \notin DOMAIN u) =>
                   (~user_config'.last_ok /\ v = u)
            /\ (op \in {"update_password", "enable_user"} /\ n \in DOMAIN u) =>
                   /\ user_config'.last_ok
                   /\ DOMAIN v = DOMAIN u
                   /\ \A m \in DOMAIN u \ {n} : v[m] = u[m]
                   /\ v[n].created_at = u[n].created_at
                   /\ v[n].last_modified = user_config.clock
            /\ (op = "enable_user" /\ n \in DOMAIN u) =>
                   /\ v[n].password_hash = u[n].password_hash
                   /\ v[n].salt = u[n].salt
      ]_vars

\* the password of a user made at time 0 was changed at time 1
C39_Witness ==
    /\ user_config.last_op = "update_password"
    /\ user_config.last_ok
    /\ user_config.last_user = "a"
    /\ user_config.clock = 1
    /\ "a" \in DOMAIN user_config.users
    /\ user_config.users["a"].created_at = 0
    /\ user_config.users["a"].last_modified = 1

\* ------------------------------------------------------------------- C40
\* nothing, or one response frame and no byte more
OneResponse(bytes) ==
    bytes = <<>> \/ (DecodeResponse(bytes).ok /\ DecodeResponse(bytes).left = 0)

Relayed(cn) ==
    cn.up.read # <<>> \/ cn.up.deliv # <<>> \/ cn.down.read # <<>> \/ cn.down.deliv # <<>>

\* C40: what a SOCKS5 connection was sent after the negotiation is at
\* most one response frame, on every path of the handler; bytes are
\* relayed only after the success response, and once the success response
\* is written no other response follows it.
C40_AtMostOneResponse ==
    \A cn \in {conn[c] : c \in Clients} \cup {last_done} :
        cn.listener = "socks5" =>
            /\ OneResponse(Response(cn))
            /\ Relayed(cn) => Response(cn) \in SuccessResponses
            /\ Has(cn.hist, "respond") => Response(cn) \in SuccessResponses

\* a tunnel that carried a byte to the client ended on an error of the copy
C40_Witness ==
    /\ last_done.listener = "socks5"
    /\ Has(last_done.hist, "copy_Err")
    /\ last_done.down.deliv # <<>>
    /\ Response(last_done) \in SuccessResponses

=============================================================================
